---- MODULE Spec2Model ----
(***************************************************************************)
(* Model of the generation client (generate360Video: start request, poll   *)
(* loop, result fetch) and of the media encoder (stitchImages,             *)
(* combineImages, processImageForGeneration) of the ai-360 application.    *)
(*                                                                         *)
(* A generate360Video call is an async function; every action below is one *)
(* continuation of that function: the code that runs between two awaits.   *)
(* The remote video service is the environment: it creates a job for each  *)
(* accepted start request, answers Running to the first `runs` status      *)
(* requests of the job and the job's terminal answer to all later ones.    *)
(* Two generate360Video bodies are modelled, "db" (part_000:113-192) and   *)
(* "svc" (services/geminiService.ts); part_000:27-87 is the "db" body with *)
(* the model lookup replaced by a test of process.env.API_KEY.             *)
(***************************************************************************)
EXTENDS Integers, Sequences, FiniteSets, TLC

\* ---------------------------------------------------------------- bounds
Calls == {1, 2}            \* generate360Video calls that may be in flight
MaxRunning == 3            \* longest finite run of Running answers of a job
PollCap == MaxRunning + 4  \* status requests after which the model stops a call
MaxFiles == 3              \* longest list of files handed to the encoder
MaxDim == 2                \* largest width and height of an input image
MaxSelect == 3             \* most files in one file selection
MaxHeld == 6               \* images held after which the model takes no more
MaxTime == 2               \* weeks the clock of the auth service runs
MaxVideos == 2             \* most videos that are ever listed

\* ------------------------------------------------------- program constants
FirstMilestone == 3        \* if (pollCount === 3)
SecondMilestone == 6       \* else if (pollCount === 6)

Variants == {"db", "svc"}  \* part_000:113-192 and services/geminiService.ts
Handles == 1..Cardinality(Calls)
NoHandle == 0
NoError == "none"
NoUri == 0
Reasons == {"quota exceeded", "safety filter"}
HttpStatuses == {200, 404, 500}
ModelNames == {"", "Veo 2"}

VARIABLES
    envKey,        \* process.env.API_KEY is set
    pc,            \* per call: the await the call is suspended at
    variant,       \* per call: which generate360Video was called
    operation,     \* per call: the local `operation`
    pollCount,     \* per call: the local `pollCount`
    progress,      \* per call: the messages passed to onProgress, in order
    outcome,       \* per call: how the returned promise settled
    startReqs,     \* per call: generateVideos requests issued
    statusReqs,    \* per call: getVideosOperation requests issued
    fetchReqs,     \* per call: fetch(downloadLink) requests issued
    fetched,       \* per call: the locator that was fetched
    sentHandles,   \* per call: operation handles carried by its status requests
    reqFailed,     \* per call: a remote request of the call has failed
    sawTerminal,   \* per call: a delivered response reported done
    httpStatus,    \* per call: status of the delivered fetch response, 0 if none
    firstPollAt,   \* per call: Len(progress) when the first status request was issued
    jobs,          \* the remote service: handle -> job
    nextHandle,    \* the remote service: next handle to hand out
    encFn,         \* the encoder that was called
    encFiles,      \* its argument: per file, whether it decodes, and its size
    imgLoad,       \* per file: state of the Image element that loads it
    imgUrl,        \* per file: state of the object URL created for it
    encStatus,     \* state of the promise the encoder returned
    executorThrew, \* the async executor of the promise has thrown
    canvas,        \* the canvas: its size and the drawImage calls, in order
    encOut,        \* the File the promise resolved with
    vcApp,         \* which view controller is mounted
    vcImages,      \* its `images` / `uploadedImages` state
    vcView,        \* its `view` state
    vcError,       \* its `error` state
    vcShown,       \* the state the handlers of the last render closed over
    vcBusy,        \* the await handleGenerate is suspended at
    vcEncodedWith, \* {length of the list of the latest encoder invocation}
    vcClientCalls, \* {length of the list of the latest generation request}
    acBuild,       \* the versions of auth service and ProtectedRoute deployed
    acUser,        \* per tab: the account of the authenticated session
    acPath,        \* per tab: the path that is open
    acLoaded,      \* per tab: isLoadingSiteAccess / siteAccessEnabled of ProtectedRoute
    acMaintSeen,   \* per tab: the state of MaintenanceWrapper
    acDash,        \* per tab: siteAccessEnabled of the dashboard
    acSetting,     \* the stored siteAccessEnabled setting
    acMaint,       \* isMaintenanceMode of the stored maintenance settings
    apiEnv,        \* process.env.SITE_ACCESS_ENABLED
    apiReq,        \* the latest request to the site-access endpoint
    apiRes,        \* its response
    auUsers,       \* the users table
    auState,       \* authState of the auth service
    auStored,      \* auth_token of local storage
    auPhase,       \* how far initializeAuth has come
    auPending,     \* the token initializeAuth verified and awaits the user of
    auNow,         \* Date.now()
    auReset,       \* the latest row of password_reset_tokens; succeeded: a reset with it returned true
    auResult,      \* what the latest call of the service returned
    auPrev,        \* per user: the password before the latest reset
    auKnown,       \* per user: the password set last
    auCalls,       \* per resetPassword call: how far it has come
    prInit,        \* the auth state initAuth of AuthProvider exposed
    drUserId,      \* currentUserId of the Drive service
    drToken,       \* its currentToken
    drAuth,        \* its isAuthenticated
    drSettings,    \* the user_settings table
    drLoad,        \* per setCurrentUser call: the await it is suspended at
    drSignOut,     \* the await signOut is suspended at
    drAuthn,       \* the await authenticate is suspended at
    drOrigin,      \* the user whose settings currentToken was loaded from or saved to
    drSignedOut,   \* signOut has completed and authenticate has saved no token since
    gaApp,         \* which MainApp is mounted
    gaUser,        \* `user` of useAuth(): somebody is logged in
    gaMounted,     \* MainApp is mounted
    gaView,        \* its `view` state
    gaImages,      \* images.length
    gaError,       \* `error` is not null
    gaVideoUrl,    \* `videoUrl`: the video the URL was made for
    gaGallery,     \* `galleryVideos`: the ids of the videos listed
    gaFetch,       \* how far fetchVideos has come
    gaGen,         \* handleGenerate is suspended at an await
    gaDeletes,     \* per handleDeleteVideo call: its await, argument and closure
    gaDb,          \* the ids in the videos table
    gaRevoked,     \* the videos whose object URL was revoked
    gaListed,      \* the videos that were listed at some time
    gaDeleted,     \* the videos a handleDeleteVideo call has deleted
    gaLast         \* the handler that ran last

genVars == <<envKey, pc, variant, operation, pollCount, progress, outcome,
             startReqs, statusReqs, fetchReqs, fetched, sentHandles, reqFailed,
             sawTerminal, httpStatus, firstPollAt, jobs, nextHandle>>

encVars == <<encFn, encFiles, imgLoad, imgUrl, encStatus, executorThrew, canvas, encOut>>

vcVars == <<vcApp, vcImages, vcView, vcError, vcShown, vcBusy, vcEncodedWith, vcClientCalls>>

acVars == <<acBuild, acUser, acPath, acLoaded, acMaintSeen, acDash, acSetting, acMaint>>

apiVars == <<apiEnv, apiReq, apiRes>>

auVars == <<auUsers, auState, auStored, auPhase, auPending, auNow, auReset, auResult, auPrev, auKnown, auCalls, prInit>>

drVars == <<drUserId, drToken, drAuth, drSettings, drLoad, drSignOut, drAuthn, drOrigin, drSignedOut>>

gaVars == <<gaApp, gaUser, gaMounted, gaView, gaImages, gaError, gaVideoUrl, gaGallery,
            gaFetch, gaGen, gaDeletes, gaDb, gaRevoked, gaListed, gaDeleted, gaLast>>

vars == <<genVars, encVars, vcVars, acVars, apiVars, auVars, drVars, gaVars>>

\* ------------------------------------------------------------- messages
\* A message is a sequence of tokens: the literal chunks of the template
\* string and, for an interpolated number, its decimal digits.
Digit == <<"0", "1", "2", "3", "4", "5", "6", "7", "8", "9">>

RECURSIVE NumText(_)
NumText(n) ==
    IF n < 10 THEN <<Digit[n + 1]>>
    ELSE NumText(n \div 10) \o <<Digit[(n % 10) + 1]>>

IsNonEmptyMessage(m) == \E i \in 1..Len(m) : m[i] /= ""

ContainsSeq(m, s) ==
    \E i \in 0..(Len(m) - Len(s)) : \A j \in 1..Len(s) : m[i + j] = s[j]

UsingModelMessageNameOnly(name) == <<name>>
UsingModelMessage(name) == <<"Using AI model: ", name>>
UsingDefaultMessage == <<"Using default AI model configuration">>
PreparingMessage(v) ==
    IF v = "db" THEN <<"Preparing images for the AI...">>
    ELSE <<"Preparing your image for video generation...">>
SendingMessage == <<"Sending request to the video model...">>
StartedMessage(v) ==
    IF v = "db" THEN <<"Video generation started. This may take a few minutes...">>
    ELSE <<"AI is creating your video. This may take a few minutes...">>
ComposingMessage == <<"The AI is composing the scene and setting up the camera path...">>
RenderingMessage == <<"Rendering frames. This is the longest step, thank you for your patience.">>
CheckingMessage(n) == <<"Checking video status (attempt ">> \o NumText(n) \o <<")...">>
DownloadingMessage(v) ==
    IF v = "db" THEN <<"Generation complete! Downloading video...">>
    ELSE <<"Downloading finalized video...">>
CompleteMessage == <<"Video generation complete!">>

NoKeyMessage == <<"No API key available. Please configure an AI model in Super Admin or set API_KEY environment variable.">>
ReadErrorMessage == <<"FileReader error">>
NetworkErrorMessage == <<"Failed to fetch">>
FailureMessageNoReason(reason) == <<"Video generation failed">>
FailureMessage(reason) == <<"Video generation failed: ", reason>>
NoLinkMessage(v) ==
    IF v = "db" THEN <<"Video generation finished but no download link was provided.">>
    ELSE <<"Could not retrieve the generated video. Please try again.">>
DownloadFailedMessageNoStatus(v, status) ==
    IF v = "db" THEN <<"Failed to download the generated video.">>
    ELSE <<"Failed to download the video file.">>
DownloadFailedMessage(v, status) ==
    IF v = "db"
    THEN <<"Failed to download the generated video. Status: ">> \o NumText(status)
    ELSE <<"Failed to download the video file. Status: ">> \o NumText(status)

\* ------------------------------------------------------- call-local state
NoOperation == [handle |-> NoHandle, done |-> FALSE, error |-> NoError, uri |-> NoUri]
Pending == [kind |-> "pending", msg |-> <<>>, artifact |-> "none"]
Rejected(m) == [kind |-> "rejected", msg |-> m, artifact |-> "none"]
Resolved(a) == [kind |-> "resolved", msg |-> <<>>, artifact |-> a]

Settled(c) == pc[c] \in {"resolved", "rejected"}

\* `let pollCount = 0` is declared inside the function body: every call
\* has a counter of its own.
PollCountShared(c) == 1
PollCountOwner(c) == c

\* while (!operation.done)
PollAgainLimited(op, count) == ~op.done /\ count < 2
PollAgainUntilResponse(op, count) == op.uri = NoUri
PollAgain(op, count) == ~op.done

PollMessagesLate(v, count) ==
    IF v = "db"
    THEN IF count = FirstMilestone + 1 THEN <<ComposingMessage>>
         ELSE IF count = SecondMilestone + 1 THEN <<RenderingMessage>>
         ELSE <<>>
    ELSE <<CheckingMessage(count)>>

\* if (pollCount === 3) ... else if (pollCount === 6) ... (part_000);
\* onProgress(`Checking video status (attempt ${pollCount})...`) (geminiService.ts)
PollMessages(v, count) ==
    IF v = "db"
    THEN IF count = FirstMilestone THEN <<ComposingMessage>>
         ELSE IF count = SecondMilestone THEN <<RenderingMessage>>
         ELSE <<>>
    ELSE <<CheckingMessage(count)>>

\* response.ok: the status is in the range 200-299
ResponseOk(status) == status >= 200 /\ status <= 299

\* if (!downloadLink)
MissingLinkIgnored(op) == FALSE
MissingLink(op) == op.uri = NoUri

\* ------------------------------------------------------ the remote service
NoJob == [kind |-> "none", runs |-> 0, polled |-> 0, owner |-> 0,
          term |-> [decided |-> FALSE, error |-> NoError, uri |-> NoUri]]

JobKinds == {[kind |-> "instant", runs |-> 0]}
            \cup {[kind |-> "finite", runs |-> n] : n \in 0..MaxRunning}
            \cup {[kind |-> "forever", runs |-> 0]}

\* The terminal answers of a job whose handle is h.
Terms(h) == {[decided |-> TRUE, error |-> r, uri |-> NoUri] : r \in Reasons}
            \cup {[decided |-> TRUE, error |-> NoError, uri |-> NoUri],
                  [decided |-> TRUE, error |-> NoError, uri |-> h]}

\* The job is still running when it is asked for the (k+1)-th time.
JobRunning(j, k) == j.kind = "forever" \/ (j.kind = "finite" /\ k < j.runs)

RunningAnswer(h) == [handle |-> h, done |-> FALSE, error |-> NoError, uri |-> NoUri]
TerminalAnswer(h, t) == [handle |-> h, done |-> TRUE, error |-> t.error, uri |-> t.uri]

\* ------------------------------------------------- generate360Video steps
\* The code from the end of the poll loop's condition on: either the next
\* iteration starts (pollCount++, then the 10 s timer) or the loop is over
\* and the code runs up to the fetch of the download link.
AfterResponse(c, op, prog, count) ==
    LET s == PollCountOwner(c)
        v == variant[c]
    IN  /\ operation' = [operation EXCEPT ![c] = op]
        /\ IF PollAgain(op, count)
           THEN /\ pollCount' = [pollCount EXCEPT ![s] = count + 1]
                /\ pc' = [pc EXCEPT ![c] = "sleep"]
                /\ progress' = [progress EXCEPT ![c] = prog]
                /\ UNCHANGED <<outcome, fetchReqs, fetched>>
           ELSE /\ pollCount' = [pollCount EXCEPT ![s] = count]
                /\ IF op.error /= NoError
                   THEN /\ outcome' = [outcome EXCEPT ![c] = Rejected(FailureMessage(op.error))]
                        /\ pc' = [pc EXCEPT ![c] = "rejected"]
                        /\ progress' = [progress EXCEPT ![c] = prog]
                        /\ UNCHANGED <<fetchReqs, fetched>>
                   ELSE IF MissingLink(op)
                   THEN /\ outcome' = [outcome EXCEPT ![c] = Rejected(NoLinkMessage(v))]
                        /\ pc' = [pc EXCEPT ![c] = "rejected"]
                        /\ progress' = [progress EXCEPT ![c] = prog]
                        /\ UNCHANGED <<fetchReqs, fetched>>
                   ELSE /\ progress' = [progress EXCEPT ![c] = Append(prog, DownloadingMessage(v))]
                        /\ fetchReqs' = [fetchReqs EXCEPT ![c] = @ + 1]
                        /\ fetched' = [fetched EXCEPT ![c] = op.uri]
                        /\ pc' = [pc EXCEPT ![c] = "fetch"]
                        /\ UNCHANGED outcome

\* The promise rejects with message m; nothing else of the call changes.
Fail(c, m) ==
    /\ outcome' = [outcome EXCEPT ![c] = Rejected(m)]
    /\ pc' = [pc EXCEPT ![c] = "rejected"]

\* generate360Video is called: the code up to the first await.
Call(c) ==
    /\ pc[c] = "idle"
    /\ \E v \in Variants :
        /\ variant' = [variant EXCEPT ![c] = v]
        /\ IF v = "db"
           THEN /\ pc' = [pc EXCEPT ![c] = "models"]
                /\ UNCHANGED progress
           ELSE /\ pc' = [pc EXCEPT ![c] = "encode"]
                /\ progress' = [progress EXCEPT ![c] = Append(@, PreparingMessage(v))]
    /\ UNCHANGED <<envKey, operation, pollCount, outcome, startReqs, statusReqs,
                   fetchReqs, fetched, sentHandles, reqFailed, sawTerminal,
                   httpStatus, firstPollAt, jobs, nextHandle>>

\* db.getAllAIModels() settles (part_000:122-145).
ModelsLoaded(c) ==
    /\ pc[c] = "models"
    /\ \E ok \in BOOLEAN, active \in BOOLEAN, name \in ModelNames, modelKey \in BOOLEAN :
        LET found == ok /\ active
            apiKey == IF found THEN modelKey ELSE envKey
            said == IF found THEN UsingModelMessage(name) ELSE UsingDefaultMessage
        IN  IF ~apiKey
            THEN /\ Fail(c, NoKeyMessage)
                 /\ progress' = [progress EXCEPT ![c] = Append(@, said)]
            ELSE /\ pc' = [pc EXCEPT ![c] = "encode"]
                 /\ progress' = [progress EXCEPT ![c] =
                                    Append(Append(@, said), PreparingMessage("db"))]
                 /\ UNCHANGED outcome
    /\ UNCHANGED <<envKey, variant, operation, pollCount, startReqs, statusReqs,
                   fetchReqs, fetched, sentHandles, reqFailed, sawTerminal,
                   httpStatus, firstPollAt, jobs, nextHandle>>

\* fileToBase64 settles; on success the start request is issued.
Encoded(c) ==
    /\ pc[c] = "encode"
    /\ \E ok \in BOOLEAN :
        IF ok
        THEN /\ progress' = [progress EXCEPT ![c] = Append(@, SendingMessage)]
             /\ startReqs' = [startReqs EXCEPT ![c] = @ + 1]
             /\ pc' = [pc EXCEPT ![c] = "start"]
             /\ UNCHANGED outcome
        ELSE /\ Fail(c, ReadErrorMessage)
             /\ UNCHANGED <<progress, startReqs>>
    /\ UNCHANGED <<envKey, variant, operation, pollCount, statusReqs,
                   fetchReqs, fetched, sentHandles, reqFailed, sawTerminal,
                   httpStatus, firstPollAt, jobs, nextHandle>>

\* ai.models.generateVideos settles: the request failed, or the service
\* accepted it, created a job and answered with the job's operation.
StartResponse(c) ==
    /\ pc[c] = "start"
    /\ \/ /\ Fail(c, NetworkErrorMessage)
          /\ reqFailed' = [reqFailed EXCEPT ![c] = TRUE]
          /\ UNCHANGED <<operation, pollCount, progress, fetchReqs, fetched,
                         sawTerminal, jobs, nextHandle>>
       \/ /\ nextHandle \in Handles
          /\ \E k \in JobKinds :
              LET h == nextHandle
                  running == k.kind /= "instant"
              IN  \E t \in (IF running THEN {NoJob.term} ELSE Terms(h)) :
                    LET op == IF running THEN RunningAnswer(h) ELSE TerminalAnswer(h, t)
                    IN  /\ jobs' = [jobs EXCEPT ![h] =
                                      [kind |-> k.kind, runs |-> k.runs, polled |-> 0,
                                       owner |-> c, term |-> t]]
                        /\ nextHandle' = nextHandle + 1
                        /\ sawTerminal' = [sawTerminal EXCEPT ![c] = op.done]
                        /\ AfterResponse(c, op, Append(progress[c], StartedMessage(variant[c])), 0)
          /\ UNCHANGED reqFailed
    /\ UNCHANGED <<envKey, variant, startReqs, statusReqs, sentHandles,
                   httpStatus, firstPollAt>>

\* The 10 s timer fires: the progress message of this iteration, then the
\* status request is issued with the local operation.
Wake(c) ==
    /\ pc[c] = "sleep"
    /\ statusReqs[c] < PollCap
    /\ progress' = [progress EXCEPT ![c] =
                       @ \o PollMessages(variant[c], pollCount[PollCountOwner(c)])]
    /\ statusReqs' = [statusReqs EXCEPT ![c] = @ + 1]
    /\ sentHandles' = [sentHandles EXCEPT ![c] = @ \cup {operation[c].handle}]
    /\ firstPollAt' = [firstPollAt EXCEPT ![c] =
                          IF statusReqs[c] = 0 THEN Len(progress'[c]) ELSE @]
    /\ pc' = [pc EXCEPT ![c] = "poll"]
    /\ UNCHANGED <<envKey, variant, operation, pollCount, outcome, startReqs,
                   fetchReqs, fetched, reqFailed, sawTerminal, httpStatus, jobs,
                   nextHandle>>

\* ai.operations.getVideosOperation settles.
StatusResponse(c) ==
    /\ pc[c] = "poll"
    /\ \/ /\ Fail(c, NetworkErrorMessage)
          /\ reqFailed' = [reqFailed EXCEPT ![c] = TRUE]
          /\ UNCHANGED <<operation, pollCount, progress, fetchReqs, fetched,
                         sawTerminal, jobs>>
       \/ LET h == operation[c].handle
              j == jobs[h]
              running == JobRunning(j, j.polled)
          IN  \E t \in (IF running \/ j.term.decided THEN {j.term} ELSE Terms(h)) :
                LET op == IF running THEN RunningAnswer(h) ELSE TerminalAnswer(h, t)
                IN  /\ jobs' = [jobs EXCEPT ![h].polled = IF running THEN @ + 1 ELSE @,
                                            ![h].term = t]
                    /\ sawTerminal' = [sawTerminal EXCEPT ![c] = @ \/ op.done]
                    /\ AfterResponse(c, op, progress[c], pollCount[PollCountOwner(c)])
                    /\ UNCHANGED reqFailed
    /\ UNCHANGED <<envKey, variant, startReqs, statusReqs, sentHandles,
                   httpStatus, firstPollAt, nextHandle>>

\* The awaited fetch rejects: nothing catches it, the call rejects.
OnFetchFailureRetry(c) ==
    IF fetchReqs[c] < 2
    THEN /\ fetchReqs' = [fetchReqs EXCEPT ![c] = @ + 1]
         /\ UNCHANGED <<pc, outcome>>
    ELSE /\ Fail(c, NetworkErrorMessage)
         /\ UNCHANGED fetchReqs
OnFetchFailure(c) ==
    /\ Fail(c, NetworkErrorMessage)
    /\ UNCHANGED fetchReqs

\* fetch(`${downloadLink}&key=${apiKey}`) settles.
FetchResponse(c) ==
    /\ pc[c] = "fetch"
    /\ \/ /\ reqFailed' = [reqFailed EXCEPT ![c] = TRUE]
          /\ OnFetchFailure(c)
          /\ UNCHANGED httpStatus
       \/ /\ \E status \in HttpStatuses :
               /\ httpStatus' = [httpStatus EXCEPT ![c] = status]
               /\ IF ResponseOk(status)
                  THEN /\ pc' = [pc EXCEPT ![c] = "blob"]
                       /\ UNCHANGED outcome
                  ELSE Fail(c, DownloadFailedMessage(variant[c], status))
          /\ UNCHANGED <<reqFailed, fetchReqs>>
    /\ UNCHANGED <<envKey, variant, operation, pollCount, progress, startReqs,
                   statusReqs, fetched, sentHandles, sawTerminal,
                   firstPollAt, jobs, nextHandle>>

\* response.blob() settles; the call returns the artifact.
BlobRead(c) ==
    /\ pc[c] = "blob"
    /\ \/ /\ Fail(c, NetworkErrorMessage)
          /\ reqFailed' = [reqFailed EXCEPT ![c] = TRUE]
          /\ UNCHANGED progress
       \/ /\ pc' = [pc EXCEPT ![c] = "resolved"]
          /\ IF variant[c] = "db"
             THEN /\ outcome' = [outcome EXCEPT ![c] = Resolved("blob")]
                  /\ UNCHANGED progress
             ELSE /\ outcome' = [outcome EXCEPT ![c] = Resolved("objectUrl")]
                  /\ progress' = [progress EXCEPT ![c] = Append(@, CompleteMessage)]
          /\ UNCHANGED reqFailed
    /\ UNCHANGED <<envKey, variant, operation, pollCount, startReqs, statusReqs,
                   fetchReqs, fetched, sentHandles, sawTerminal, httpStatus,
                   firstPollAt, jobs, nextHandle>>

GenInit ==
    /\ variant = [c \in Calls |-> "none"]
    /\ operation = [c \in Calls |-> NoOperation]
    /\ pollCount = [c \in Calls |-> 0]
    /\ progress = [c \in Calls |-> <<>>]
    /\ outcome = [c \in Calls |-> Pending]
    /\ startReqs = [c \in Calls |-> 0]
    /\ statusReqs = [c \in Calls |-> 0]
    /\ fetchReqs = [c \in Calls |-> 0]
    /\ fetched = [c \in Calls |-> NoUri]
    /\ sentHandles = [c \in Calls |-> {}]
    /\ reqFailed = [c \in Calls |-> FALSE]
    /\ sawTerminal = [c \in Calls |-> FALSE]
    /\ httpStatus = [c \in Calls |-> 0]
    /\ firstPollAt = [c \in Calls |-> 0]
    /\ jobs = [h \in Handles |-> NoJob]
    /\ nextHandle = 1

GenStep(c) ==
    \/ Call(c)
    \/ ModelsLoaded(c)
    \/ Encoded(c)
    \/ StartResponse(c)
    \/ Wake(c)
    \/ StatusResponse(c)
    \/ FetchResponse(c)
    \/ BlobRead(c)

NextGenerate == (\E c \in Calls : GenStep(c)) /\ UNCHANGED <<encVars, vcVars, acVars, apiVars, auVars, drVars, gaVars>>

\* ------------------------------------------------------ the media encoder
\* stitchImages (App.tsx), combineImages (part_007) and
\* processImageForGeneration (part_006, part_007).  An action is the call
\* itself or one browser callback: an Image's onload or onerror, the
\* callback of canvas.toBlob.
EncoderFns == {"stitchImages", "combineImages", "processImageForGeneration"}
ImageFiles == [ok : BOOLEAN, w : 1..MaxDim, h : 1..MaxDim]
FileLists == UNION {[1..n -> ImageFiles] : n \in 1..MaxFiles}
NoCanvas == [w |-> 0, h |-> 0, draws |-> <<>>]
NoFile == [name |-> "none", w |-> 0, h |-> 0, draws |-> <<>>]

RECURSIVE SumWidths(_, _)
SumWidths(files, n) == IF n = 0 THEN 0 ELSE SumWidths(files, n - 1) + files[n].w

MaxHeightOfFirst(files) == files[1].h
MaxHeight(files) ==
    CHOOSE m \in {files[i].h : i \in 1..Len(files)} :
        \A i \in 1..Len(files) : files[i].h <= m

\* Which files the encoder loads: all of them, or imageFiles[0] only.
LoadsFile(fn, i) == fn /= "processImageForGeneration" \/ i = 1

\* The vertical position of a drawImage call, in half pixels:
\* (maxHeight - img.naturalHeight) / 2 in stitchImages, 0 elsewhere.
YOffsetTimes2(fn, files, i) ==
    IF fn = "stitchImages" THEN MaxHeight(files) - files[i].h ELSE 0

\* The drawImage calls of the loop over the images, in order.
Draws(fn, files) ==
    IF fn = "processImageForGeneration"
    THEN <<[img |-> 1, x |-> 0, y2 |-> 0]>>
    ELSE [i \in 1..Len(files) |->
            [img |-> i, x |-> SumWidths(files, i - 1), y2 |-> YOffsetTimes2(fn, files, i)]]

Painted(fn, files) ==
    IF fn = "processImageForGeneration"
    THEN [w |-> files[1].w, h |-> files[1].h, draws |-> Draws(fn, files)]
    ELSE [w |-> SumWidths(files, Len(files)), h |-> MaxHeight(files),
          draws |-> Draws(fn, files)]

OutputName(fn) ==
    IF fn = "stitchImages" THEN "stitched-panorama.png"
    ELSE IF fn = "combineImages" THEN "combined-image.png"
    ELSE "primary-image.png"

\* What a rejection of Promise.all does to the promise the encoder returned.
\* stitchImages is an async function: the rejection rejects its promise.
\* combineImages awaits inside `new Promise(async (resolve, reject) => ...)`:
\* the rejection is thrown in the executor and neither resolve nor reject is
\* ever called.
AfterLoadFailure(fn) ==
    IF fn = "combineImages" THEN "loading" ELSE "rejected"

EncInit ==
    /\ encFn = "none"
    /\ encFiles = <<>>
    /\ imgLoad = <<>>
    /\ imgUrl = <<>>
    /\ encStatus = "idle"
    /\ executorThrew = FALSE
    /\ canvas = NoCanvas
    /\ encOut = NoFile

\* The encoder is called: an Image and an object URL for every file it loads.
EncodeCall ==
    /\ encStatus = "idle"
    /\ \E fn \in EncoderFns, files \in FileLists :
        /\ encFn' = fn
        /\ encFiles' = files
        /\ imgLoad' = [i \in 1..Len(files) |-> IF LoadsFile(fn, i) THEN "pending" ELSE "idle"]
        /\ imgUrl' = [i \in 1..Len(files) |-> IF LoadsFile(fn, i) THEN "live" ELSE "none"]
    /\ encStatus' = "loading"
    /\ UNCHANGED <<executorThrew, canvas, encOut>>

\* img.onload.  When it is the last image, the code after Promise.all runs
\* (in processImageForGeneration, the onload handler itself): the canvas is
\* sized and painted, the object URLs are revoked and toBlob is called; a
\* missing 2d context ends the call before that.
ImageLoaded(i) ==
    /\ i \in 1..Len(imgLoad)
    /\ imgLoad[i] = "pending"
    /\ encFiles[i].ok
    /\ imgLoad' = [imgLoad EXCEPT ![i] = "loaded"]
    /\ IF encStatus = "loading" /\ ~executorThrew
          /\ \A k \in 1..Len(imgLoad) : LoadsFile(encFn, k) => imgLoad'[k] = "loaded"
       THEN \E ctx \in BOOLEAN :
              IF ctx
              THEN /\ canvas' = Painted(encFn, encFiles)
                   /\ imgUrl' = [k \in 1..Len(imgUrl) |->
                                    IF imgUrl[k] = "live" THEN "revoked" ELSE imgUrl[k]]
                   /\ encStatus' = "blob"
              ELSE /\ encStatus' = "rejected"
                   /\ UNCHANGED <<canvas, imgUrl>>
       ELSE UNCHANGED <<canvas, imgUrl, encStatus>>
    /\ UNCHANGED <<encFn, encFiles, executorThrew, encOut>>

\* img.onerror: the image's promise rejects, and with it Promise.all.
ImageError(i) ==
    /\ i \in 1..Len(imgLoad)
    /\ imgLoad[i] = "pending"
    /\ ~encFiles[i].ok
    /\ imgLoad' = [imgLoad EXCEPT ![i] = "error"]
    /\ IF encStatus = "loading" /\ ~executorThrew
       THEN /\ encStatus' = AfterLoadFailure(encFn)
            /\ executorThrew' = (encFn = "combineImages")
       ELSE UNCHANGED <<encStatus, executorThrew>>
    /\ UNCHANGED <<encFn, encFiles, imgUrl, canvas, encOut>>

\* The callback of canvas.toBlob: a blob, or null.
BlobReady ==
    /\ encStatus = "blob"
    /\ \E blob \in BOOLEAN :
        IF blob
        THEN /\ encStatus' = "resolved"
             /\ encOut' = [name |-> OutputName(encFn), w |-> canvas.w, h |-> canvas.h,
                           draws |-> canvas.draws]
        ELSE /\ encStatus' = "rejected"
             /\ UNCHANGED encOut
    /\ UNCHANGED <<encFn, encFiles, imgLoad, imgUrl, executorThrew, canvas>>

NextEncode ==
    /\ \/ EncodeCall
       \/ \E i \in 1..MaxFiles : ImageLoaded(i)
       \/ \E i \in 1..MaxFiles : ImageError(i)
       \/ BlobReady
    /\ UNCHANGED <<genVars, vcVars, acVars, apiVars, auVars, drVars, gaVars>>

\* ------------------------------------------------- the site-access gate
\* Two browser tabs of one origin: they share the IndexedDB settings store
\* and the maintenance settings, and each has its own React tree.  A build
\* is one pairing of the versions of the auth service and of ProtectedRoute
\* found in the repository.
Tabs == {1, 2}

Builds ==
    { [auth |-> "authService.ts", route |-> "ProtectedRoute.tsx", wrapper |-> FALSE],
      [auth |-> "part_003",       route |-> "part_008",           wrapper |-> TRUE],
      [auth |-> "part_003",       route |-> "ProtectedRoute.tsx", wrapper |-> TRUE] }

Accounts == {"regular", "admin"}
NoAccount == "none"
Paths == {"/", "/superadmin"}

\* user.role of the account's record: signup creates role 'user'; the super
\* admin is created by createSuperAdmin (authService.ts) with 'superadmin'
\* and by initializeDefaultSuperAdmin (supabaseDb.ts) with 'super_admin'.
RoleOf(build, account) ==
    IF account = NoAccount THEN "undefined"
    ELSE IF account = "regular" THEN "user"
    ELSE IF build.auth = "authService.ts" THEN "superadmin"
    ELSE "super_admin"

\* AuthService.isSuperAdmin
IsSuperAdmin(build, account) ==
    RoleOf(build, account) = (IF build.auth = "authService.ts" THEN "superadmin" ELSE "super_admin")

\* db.isSiteAccessEnabled: the stored value, enabled when the read fails.
IsSiteAccessEnabled(stored, readOk) == IF readOk THEN stored ELSE TRUE

\* What ProtectedRoute returns.
ProtectedRouteRender(build, account, path, loaded) ==
    LET role == RoleOf(build, account)
        requireSuperAdmin == (path = "/superadmin")
    IN  IF build.route = "ProtectedRoute.tsx"
        THEN IF loaded = "loading" THEN "loading"
             ELSE IF account = NoAccount THEN "redirect"
             ELSE IF loaded = "disabled" /\ role /= "superadmin" THEN "maintenance"
             ELSE IF requireSuperAdmin /\ role /= "superadmin" THEN "denied"
             ELSE "content"
        ELSE IF account = NoAccount THEN "redirect"
             ELSE IF requireSuperAdmin /\ role /= "super_admin" THEN "denied"
             ELSE "content"

MaintenanceWrapperRenderFailClosed(build, account, seen) ==
    IF seen = "loading" THEN "loading"
    ELSE IF seen \in {"on", "error"} /\ ~IsSuperAdmin(build, account) THEN "maintenance"
    ELSE "children"

\* What MaintenanceWrapper returns: "children" stands for the wrapped tree.
MaintenanceWrapperRender(build, account, seen) ==
    IF seen = "loading" THEN "loading"
    ELSE IF seen = "error" THEN "children"
    ELSE IF seen = "on" /\ ~IsSuperAdmin(build, account) THEN "maintenance"
    ELSE "children"

\* What the tab shows.
Page(t) ==
    LET outer == IF acBuild.wrapper
                 THEN MaintenanceWrapperRender(acBuild, acUser[t], acMaintSeen[t])
                 ELSE "children"
    IN  IF outer = "children"
        THEN ProtectedRouteRender(acBuild, acUser[t], acPath[t], acLoaded[t])
        ELSE outer

AcInit ==
    /\ acBuild = [auth |-> "none", route |-> "none", wrapper |-> FALSE]
    /\ acUser = [t \in Tabs |-> NoAccount]
    /\ acPath = [t \in Tabs |-> "/"]
    /\ acLoaded = [t \in Tabs |-> "loading"]
    /\ acMaintSeen = [t \in Tabs |-> "loading"]
    /\ acDash = [t \in Tabs |-> TRUE]
    /\ acSetting = TRUE
    /\ acMaint = FALSE

Deployed == acBuild \in Builds

\* One of the builds is deployed.
Deploy ==
    /\ ~Deployed
    /\ acBuild' \in Builds
    /\ UNCHANGED <<acUser, acPath, acLoaded, acMaintSeen, acDash, acSetting, acMaint>>

\* login succeeds in tab t: the /auth route navigates to "/", where a new
\* ProtectedRoute mounts.
SignIn(t) ==
    /\ Deployed
    /\ acUser[t] = NoAccount
    /\ \E a \in Accounts : acUser' = [acUser EXCEPT ![t] = a]
    /\ acPath' = [acPath EXCEPT ![t] = "/"]
    /\ acLoaded' = [acLoaded EXCEPT ![t] = "loading"]
    /\ acDash' = [acDash EXCEPT ![t] = TRUE]
    /\ UNCHANGED <<acBuild, acMaintSeen, acSetting, acMaint>>

\* logout in tab t: ProtectedRoute navigates to /auth and unmounts.
SignOut(t) ==
    /\ acUser[t] /= NoAccount
    /\ acUser' = [acUser EXCEPT ![t] = NoAccount]
    /\ acLoaded' = [acLoaded EXCEPT ![t] = "loading"]
    /\ UNCHANGED <<acBuild, acPath, acMaintSeen, acDash, acSetting, acMaint>>

\* The signed-in user loads a path in tab t (address bar, or the plain
\* links to /superadmin): the page loads anew and every component mounts.
Open(t) ==
    /\ acUser[t] /= NoAccount
    /\ \E p \in Paths : acPath' = [acPath EXCEPT ![t] = p]
    /\ acLoaded' = [acLoaded EXCEPT ![t] = "loading"]
    /\ acMaintSeen' = [acMaintSeen EXCEPT ![t] = "loading"]
    /\ acDash' = [acDash EXCEPT ![t] = TRUE]
    /\ UNCHANGED <<acBuild, acUser, acSetting, acMaint>>

\* checkSiteAccess of ProtectedRoute, run once by the mount effect.
CheckSiteAccess(t) ==
    /\ acBuild.route = "ProtectedRoute.tsx"
    /\ acUser[t] /= NoAccount
    /\ acLoaded[t] = "loading"
    /\ \E readOk \in BOOLEAN :
        acLoaded' = [acLoaded EXCEPT ![t] =
            IF IsSiteAccessEnabled(acSetting, readOk) THEN "enabled" ELSE "disabled"]
    /\ UNCHANGED <<acBuild, acUser, acPath, acMaintSeen, acDash, acSetting, acMaint>>

\* checkMaintenanceStatus of MaintenanceWrapper, run at mount and then
\* every 30 seconds.
CheckMaintenanceStatus(t) ==
    /\ Deployed
    /\ acBuild.wrapper
    /\ \E readOk \in BOOLEAN :
        acMaintSeen' = [acMaintSeen EXCEPT ![t] =
            IF ~readOk THEN "error" ELSE IF acMaint THEN "on" ELSE "off"]
    /\ acMaintSeen' /= acMaintSeen
    /\ UNCHANGED <<acBuild, acUser, acPath, acLoaded, acDash, acSetting, acMaint>>

\* loadData of the dashboard: its siteAccessEnabled state is the stored one.
DashboardLoad(t) ==
    /\ acBuild.route = "ProtectedRoute.tsx"
    /\ acPath[t] = "/superadmin"
    /\ Page(t) = "content"
    /\ acDash[t] /= acSetting
    /\ acDash' = [acDash EXCEPT ![t] = acSetting]
    /\ UNCHANGED <<acBuild, acUser, acPath, acLoaded, acMaintSeen, acSetting, acMaint>>

\* handleToggleSiteAccess of the dashboard shown in tab t.
ToggleSiteAccess(t) ==
    /\ acBuild.route = "ProtectedRoute.tsx"
    /\ acPath[t] = "/superadmin"
    /\ Page(t) = "content"
    /\ LET newState == ~acDash[t]
       IN  /\ acSetting' = newState
           /\ acDash' = [acDash EXCEPT ![t] = newState]
    /\ UNCHANGED <<acBuild, acUser, acPath, acLoaded, acMaintSeen, acMaint>>

\* The maintenance settings are updated from a dashboard.
ToggleMaintenance(t) ==
    /\ acBuild.wrapper
    /\ acPath[t] = "/superadmin"
    /\ Page(t) = "content"
    /\ acMaint' = ~acMaint
    /\ UNCHANGED <<acBuild, acUser, acPath, acLoaded, acMaintSeen, acDash, acSetting>>

AccessStep(t) ==
    \/ SignIn(t)
    \/ SignOut(t)
    \/ Open(t)
    \/ CheckSiteAccess(t)
    \/ CheckMaintenanceStatus(t)
    \/ DashboardLoad(t)
    \/ ToggleSiteAccess(t)
    \/ ToggleMaintenance(t)

\* ------------------------------------------------ the site-access endpoint
\* api/site-access.ts: the setting is process.env.SITE_ACCESS_ENABLED of the
\* function instance.
EnvValues == {"undefined", "true", "false"}
Methods == {"OPTIONS", "GET", "POST", "PUT"}
RoleValues == {"", "user", "superadmin"}      \* "" stands for an absent value
BodyValues == {"true", "false", "'yes'"}      \* two booleans and a string

Requests == [method : Methods, header : RoleValues, cookie : RoleValues, enabled : BodyValues]

NoRequest == [method |-> "none", header |-> "", cookie |-> "", enabled |-> "false"]
NoResponse == [status |-> 0, siteAccessEnabled |-> "none"]

\* getSiteAccessEnabled
GetSiteAccessEnabled(env) == env /= "false"

BoolString(b) == IF b THEN "true" ELSE "false"

\* req.headers['x-user-role'] || req.cookies['user-role']
UserRole(req) == IF req.header /= "" THEN req.header ELSE req.cookie

\* typeof enabled !== 'boolean'
IsBoolean(enabled) == enabled \in {"true", "false"}

MayChangeSiteAccessAlways(req) == TRUE

\* userRole !== 'superadmin' is answered 403
MayChangeSiteAccess(req) == UserRole(req) = "superadmin"

ApiIdle ==
    /\ apiReq = NoRequest
    /\ apiRes = NoResponse

ApiInit ==
    /\ apiEnv = "undefined"
    /\ ApiIdle

\* handler
Handler ==
    \E req \in Requests :
        /\ apiReq' = req
        /\ IF req.method = "OPTIONS"
           THEN /\ apiRes' = [status |-> 200, siteAccessEnabled |-> "none"]
                /\ UNCHANGED apiEnv
           ELSE IF req.method = "GET"
           THEN /\ apiRes' = [status |-> 200,
                              siteAccessEnabled |-> BoolString(GetSiteAccessEnabled(apiEnv))]
                /\ UNCHANGED apiEnv
           ELSE IF req.method = "POST"
           THEN IF ~MayChangeSiteAccess(req)
                THEN /\ apiRes' = [status |-> 403, siteAccessEnabled |-> "none"]
                     /\ UNCHANGED apiEnv
                ELSE IF ~IsBoolean(req.enabled)
                THEN /\ apiRes' = [status |-> 400, siteAccessEnabled |-> "none"]
                     /\ UNCHANGED apiEnv
                ELSE /\ apiEnv' = req.enabled
                     /\ apiRes' = [status |-> 200, siteAccessEnabled |-> req.enabled]
           ELSE /\ apiRes' = [status |-> 405, siteAccessEnabled |-> "none"]
                /\ UNCHANGED apiEnv

\* ------------------------------------------------------ the auth service
\* AuthService of part_003 over supabaseDb.ts.  Time is counted in weeks, so
\* that TOKEN_EXPIRY (7 days) is one unit.
TOKEN_EXPIRY == 1
JWT_SECRET == "pixshop-jwt-secret-key-2024"
OtherKey == "another key"
PasswordSalt == "InDus123^&Meta!!Solutions"

AdminEmail == "admin@pixshop.com"
Emails == {AdminEmail, "user@example.com"}
Passwords == {"admin123!", "q"}

\* CryptoJS.SHA256(text): a digest is the text it was computed from, so two
\* digests are equal exactly when the texts are.
SHA256(text) == [sha256 |-> text]

\* password + JWT_SECRET of supabaseDb.ts
Salted(password) == <<password, PasswordSalt>>
Unsalted(password) == <<password>>

\* CryptoJS.HmacSHA256(`${header}.${body}`, key)
HmacSHA256(key, userId, exp) == [key |-> key, userId |-> userId, exp |-> exp]

\* createToken({ userId })
CreateToken(userId, now) ==
    [userId |-> userId, exp |-> now + TOKEN_EXPIRY,
     signature |-> HmacSHA256(JWT_SECRET, userId, now + TOKEN_EXPIRY)]

VerifyTokenNoExpiry(token, now) ==
    token.signature = HmacSHA256(JWT_SECRET, token.userId, token.exp)

\* verifyToken: TRUE when it returns the payload, FALSE when it throws.
VerifyToken(token, now) ==
    /\ token.signature = HmacSHA256(JWT_SECRET, token.userId, token.exp)
    /\ ~(token.exp < now)

NoToken == [userId |-> "none", exp |-> 0, signature |-> HmacSHA256("none", "none", 0)]
NoUser == [exists |-> FALSE, hash |-> SHA256(<<>>), role |-> "none", approval |-> "none"]
Unauthenticated == [isAuthenticated |-> FALSE, user |-> "none", token |-> NoToken]
NoResult == [op |-> "none", email |-> "none", password |-> "none", success |-> FALSE]
NoReset == [issued |-> FALSE, email |-> "none", expired |-> FALSE, used |-> FALSE, succeeded |-> FALSE]
ResetCalls == {1, 2}
NoCall == [pc |-> "idle", password |-> "none"]
Loading == [isAuthenticated |-> FALSE, user |-> "loading", token |-> NoToken]
NoPassword == "none"

\* createUser of supabaseDb.ts
NewUser(password, role) ==
    [exists |-> TRUE, hash |-> SHA256(Salted(password)), role |-> role,
     approval |-> IF role = "super_admin" THEN "approved" ELSE "pending"]

\* validateUser of supabaseDb.ts: "throws", "null" or "user".
ValidateUser(user, password) ==
    IF ~user.exists THEN "null"
    ELSE IF user.approval /= "approved" THEN "throws"
    ELSE IF user.hash /= SHA256(Salted(password)) THEN "null"
    ELSE "user"

\* The tokens a user of the browser can put in local storage without the
\* key: a stored token with its expiry moved, or one signed with another key.
Altered(token) ==
    { [token EXCEPT !.exp = e] : e \in 0..(MaxTime + TOKEN_EXPIRY) }
        \cup { [token EXCEPT !.signature = HmacSHA256(OtherKey, token.userId, token.exp)] }

\* The database after initializeDefaultSuperAdmin.
AuInit ==
    /\ auUsers = [e \in Emails |-> IF e = AdminEmail THEN NewUser("admin123!", "super_admin") ELSE NoUser]
    /\ auState = Unauthenticated
    /\ auStored = NoToken
    /\ auPhase = "none"
    /\ auPending = NoToken
    /\ auNow = 0
    /\ auReset = NoReset
    /\ auResult = NoResult
    /\ auPrev = [e \in Emails |-> NoPassword]
    /\ auKnown = [e \in Emails |-> IF e = AdminEmail THEN "admin123!" ELSE NoPassword]
    /\ auCalls = [k \in ResetCalls |-> NoCall]
    /\ prInit = Loading

\* The page loads: the constructor runs initializeAuth up to its await.
Construct ==
    /\ auPhase = "none"
    /\ IF auStored = NoToken
       THEN /\ auPhase' = "no token"
            /\ UNCHANGED <<auStored, auPending>>
       ELSE IF VerifyToken(auStored, auNow)
       THEN /\ auPhase' = "restoring"
            /\ auPending' = auStored
            /\ UNCHANGED auStored
       ELSE /\ auPhase' = "removed"
            /\ auStored' = NoToken
            /\ UNCHANGED auPending
    /\ UNCHANGED <<auUsers, auState, auNow, auReset, auResult, auPrev, auKnown, auCalls, prInit>>

\* db.getUserById settles and initializeAuth finishes.
RestoreSettled ==
    /\ auPhase = "restoring"
    /\ \E dbOk \in BOOLEAN :
        IF dbOk /\ auUsers[auPending.userId].exists
        THEN /\ auState' = [isAuthenticated |-> TRUE, user |-> auPending.userId, token |-> auPending]
             /\ auPhase' = "restored"
             /\ UNCHANGED auStored
        ELSE /\ auStored' = NoToken
             /\ auPhase' = "removed"
             /\ UNCHANGED auState
    /\ auPending' = NoToken
    /\ UNCHANGED <<auUsers, auNow, auReset, auResult, auPrev, auKnown, auCalls, prInit>>

\* The page is closed or reloaded: the service and its state are gone, local
\* storage stays.
Unload ==
    /\ auPhase /= "none"
    /\ auPhase' = "none"
    /\ auPending' = NoToken
    /\ auState' = Unauthenticated
    /\ auResult' = NoResult
    /\ prInit' = Loading
    /\ UNCHANGED <<auUsers, auStored, auNow, auReset, auPrev, auKnown, auCalls>>

\* signup(credentials)
Signup ==
    /\ auPhase /= "none"
    /\ \E e \in Emails, p \in Passwords :
        IF auUsers[e].exists
        THEN /\ auResult' = [op |-> "signup", email |-> e, password |-> p, success |-> FALSE]
             /\ UNCHANGED <<auUsers, auState, auStored, auKnown>>
        ELSE LET token == CreateToken(e, auNow)
             IN  /\ auUsers' = [auUsers EXCEPT ![e] = NewUser(p, "user")]
                 /\ auState' = [isAuthenticated |-> TRUE, user |-> e, token |-> token]
                 /\ auStored' = token
                 /\ auKnown' = [auKnown EXCEPT ![e] = p]
                 /\ auResult' = [op |-> "signup", email |-> e, password |-> p, success |-> TRUE]
    /\ UNCHANGED <<auPhase, auPending, auNow, auReset, auPrev, auCalls, prInit>>

\* login(credentials)
Login ==
    /\ auPhase /= "none"
    /\ \E e \in Emails, p \in Passwords :
        IF ValidateUser(auUsers[e], p) = "user"
        THEN LET token == CreateToken(e, auNow)
             IN  /\ auState' = [isAuthenticated |-> TRUE, user |-> e, token |-> token]
                 /\ auStored' = token
                 /\ auResult' = [op |-> "login", email |-> e, password |-> p, success |-> TRUE]
        ELSE /\ auResult' = [op |-> "login", email |-> e, password |-> p, success |-> FALSE]
             /\ UNCHANGED <<auState, auStored>>
    /\ UNCHANGED <<auUsers, auPhase, auPending, auNow, auReset, auPrev, auKnown, auCalls, prInit>>

\* logout()
Logout ==
    /\ auPhase /= "none"
    /\ auState' = Unauthenticated
    /\ auStored' = NoToken
    /\ auResult' = [op |-> "logout", email |-> "none", password |-> "none", success |-> TRUE]
    /\ UNCHANGED <<auUsers, auPhase, auPending, auNow, auReset, auPrev, auKnown, auCalls, prInit>>

\* approveUser / rejectUser, called from the super admin's dashboard.
Review ==
    /\ \E e \in Emails \ {AdminEmail}, status \in {"approved", "rejected"} :
        /\ auUsers[e].exists
        /\ auUsers[e].approval /= status
        /\ auUsers' = [auUsers EXCEPT ![e].approval = status]
    /\ UNCHANGED <<auState, auStored, auPhase, auPending, auNow, auReset, auResult, auPrev, auKnown, auCalls, prInit>>

\* forgotPassword(email): createPasswordResetToken stores a token that
\* expires in an hour.  The model follows the latest token only: another
\* is issued once that one is used or expired.
ForgotPassword ==
    /\ auPhase /= "none"
    /\ ~auReset.issued \/ auReset.used \/ auReset.expired
    /\ \A k \in ResetCalls : auCalls[k] = NoCall
    /\ \E e \in Emails :
        IF auUsers[e].exists
        THEN /\ auReset' = [issued |-> TRUE, email |-> e, expired |-> FALSE, used |-> FALSE, succeeded |-> FALSE]
             /\ auResult' = [op |-> "forgotPassword", email |-> e, password |-> "none", success |-> TRUE]
        ELSE /\ auResult' = [op |-> "forgotPassword", email |-> e, password |-> "none", success |-> FALSE]
             /\ UNCHANGED auReset
    /\ UNCHANGED <<auUsers, auState, auStored, auPhase, auPending, auNow, auPrev, auKnown, auCalls, prInit>>

\* The hour of the reset token passes.
ResetTokenExpires ==
    /\ auReset.issued
    /\ ~auReset.expired
    /\ auReset' = [auReset EXCEPT !.expired = TRUE]
    /\ UNCHANGED <<auUsers, auState, auStored, auPhase, auPending, auNow, auResult, auPrev, auKnown, auCalls, prInit>>

\* resetPassword(token, newPassword) with the token that was issued, up to
\* the answer to its select: the row of the token, when it is unused and
\* not expired.
ResetPassword(k) ==
    /\ auPhase /= "none"
    /\ auReset.issued
    /\ auCalls[k] = NoCall
    /\ \E p \in Passwords, selectOk \in BOOLEAN :
        IF selectOk /\ ~auReset.used /\ ~auReset.expired
        THEN /\ auCalls' = [auCalls EXCEPT ![k] = [pc |-> "found", password |-> p]]
             /\ UNCHANGED auResult
        ELSE /\ auResult' = [op |-> "resetPassword", email |-> auReset.email, password |-> p, success |-> FALSE]
             /\ UNCHANGED auCalls
    /\ UNCHANGED <<auUsers, auState, auStored, auPhase, auPending, auNow, auReset, auPrev, auKnown, prInit>>

\* The rest of resetPassword: the password is updated and the token is
\* marked as used; the answer to that second update is not looked at.
ResetPasswordFound(k) ==
    /\ auCalls[k].pc = "found"
    /\ LET p == auCalls[k].password
       IN  \E updateOk, markOk \in BOOLEAN :
            IF updateOk
            THEN /\ auUsers' = [auUsers EXCEPT ![auReset.email].hash = SHA256(Unsalted(p))]
                 /\ auReset' = [auReset EXCEPT !.used = (auReset.used \/ markOk), !.succeeded = TRUE]
                 /\ auPrev' = [auPrev EXCEPT ![auReset.email] = auKnown[auReset.email]]
                 /\ auKnown' = [auKnown EXCEPT ![auReset.email] = p]
                 /\ auResult' = [op |-> "resetPassword", email |-> auReset.email, password |-> p, success |-> TRUE]
            ELSE /\ auResult' = [op |-> "resetPassword", email |-> auReset.email, password |-> p, success |-> FALSE]
                 /\ UNCHANGED <<auUsers, auReset, auPrev, auKnown>>
    /\ auCalls' = [auCalls EXCEPT ![k] = NoCall]
    /\ UNCHANGED <<auState, auStored, auPhase, auPending, auNow, prInit>>

\* A week passes.
Tick ==
    /\ auNow < MaxTime
    /\ auNow' = auNow + 1
    /\ UNCHANGED <<auUsers, auState, auStored, auPhase, auPending, auReset, auResult, auPrev, auKnown, auCalls, prInit>>

\* The stored token is edited while no page is open.
EditStoredToken ==
    /\ auPhase = "none"
    /\ auStored /= NoToken
    /\ auStored' \in Altered(auStored) \ {auStored}
    /\ UNCHANGED <<auUsers, auState, auPhase, auPending, auNow, auReset, auResult, auPrev, auKnown, auCalls, prInit>>

\* initAuth of AuthProvider: createSuperAdmin has settled, the provider
\* copies getAuthState() and leaves its loading state.
ProviderInit ==
    /\ auPhase /= "none"
    /\ prInit = Loading
    /\ prInit' = auState
    /\ UNCHANGED <<auUsers, auState, auStored, auPhase, auPending, auNow, auReset, auResult, auPrev, auKnown, auCalls>>

\* Sessions: the service over page loads, time and local storage.
SessionStep ==
    \/ Construct
    \/ RestoreSettled
    \/ Unload
    \/ Signup
    \/ Login
    \/ Logout
    \/ Review
    \/ Tick
    \/ EditStoredToken
    \/ ProviderInit

\* Passwords: the service of one page load, with password resets.
PasswordStep ==
    \/ Construct
    \/ RestoreSettled
    \/ Signup
    \/ Login
    \/ Logout
    \/ Review
    \/ ForgotPassword
    \/ ResetTokenExpires
    \/ \E k \in ResetCalls : ResetPassword(k)
    \/ \E k \in ResetCalls : ResetPasswordFound(k)

\* ---------------------------------------------------- the view controller
\* The image list of the three view controllers: App (App.tsx), the MainApp
\* that holds up to four images (part_007:527) and the MainApp that holds
\* one (part_006:60, part_007:58).  A handler is the closure of the last
\* render: what it reads of the state is what that render saw (vcShown);
\* a state updater function runs on the current state.  React renders
\* again at some point after a state change (Render).
\* App has no `view` state: for it vcView is "loading" while isLoading is
\* true, "result" once videoUrl is set and "start" otherwise.
ViewControllers == {"App", "MainAppMulti", "MainAppSingle"}

\* const MAX_IMAGES
MAX_IMAGES(app) == IF app = "MainAppSingle" THEN 1 ELSE 4

File == "file"
FileList(n) == [i \in 1..n |-> File]

Min(a, b) == IF a <= b THEN a ELSE b
Max(a, b) == IF a >= b THEN a ELSE b

\* Array.prototype.slice(0, end): a negative end counts from the end.
SliceFromStart(files, end) ==
    SubSeq(files, 1, IF end >= 0 THEN Min(Len(files), end) ELSE Max(Len(files) + end, 0))

\* Array.prototype.filter((_, index) => index !== indexToRemove), 0-based.
RemoveAt(files, indexToRemove) ==
    SubSeq(files, 1, Min(indexToRemove, Len(files)))
        \o SubSeq(files, indexToRemove + 2, Len(files))

TooManyMessage == "You can only upload a maximum of 4 images."
NoImageMessage(app) ==
    IF app = "App" THEN "Please upload at least one image to generate a video."
    ELSE "Please upload at least one image."
GenerateFailedMessage == "Failed to generate the video."
NoViewError == "null"

VcInit ==
    /\ vcApp = "none"
    /\ vcImages = <<>>
    /\ vcView = "start"
    /\ vcError = NoViewError
    /\ vcShown = [images |-> <<>>, view |-> "start"]
    /\ vcBusy = "idle"
    /\ vcEncodedWith = {}
    /\ vcClientCalls = {}

\* The component is mounted.
Mount ==
    /\ vcApp = "none"
    /\ vcApp' \in ViewControllers
    /\ UNCHANGED <<vcImages, vcView, vcError, vcShown, vcBusy, vcEncodedWith, vcClientCalls>>

\* React renders: the handlers now close over the current state.
Render ==
    /\ vcApp /= "none"
    /\ vcShown /= [images |-> vcImages, view |-> vcView]
    /\ vcShown' = [images |-> vcImages, view |-> vcView]
    /\ UNCHANGED <<vcApp, vcImages, vcView, vcError, vcBusy, vcEncodedWith, vcClientCalls>>

\* handleFileSelect of App.tsx: the updater refuses a selection that would
\* make more than MAX_IMAGES images.
SelectInApp(files) ==
    LET combined == vcImages \o files
    IN  IF Len(combined) > MAX_IMAGES("App")
        THEN /\ vcError' = TooManyMessage
             /\ UNCHANGED <<vcImages, vcView>>
        ELSE /\ vcError' = NoViewError
             /\ vcImages' = combined
             /\ UNCHANGED vcView

\* handleFilesSelect of part_007:554: the room that is left is computed from
\* images.length of the render the handler belongs to; the updater appends.
SelectInMulti(files) ==
    LET newImages == SliceFromStart(files, MAX_IMAGES("MainAppMulti") - Len(vcShown.images))
    IN  IF Len(newImages) > 0
        THEN /\ vcImages' = vcImages \o newImages
             /\ vcView' = "editor"
             /\ UNCHANGED vcError
        ELSE UNCHANGED <<vcImages, vcView, vcError>>

\* handleFilesSelect of part_006:163 and part_007:111: the first file
\* replaces the image that is held.
SelectInSingle(files) ==
    IF Len(files) > 0
    THEN /\ vcImages' = <<files[1]>>
         /\ vcView' = "editor"
         /\ UNCHANGED vcError
    ELSE UNCHANGED <<vcImages, vcView, vcError>>

\* The user selects or drops n files.
SelectFiles ==
    /\ vcApp /= "none"
    /\ \E n \in 0..MaxSelect :
        /\ Len(vcImages) + n <= MaxHeld
        /\ IF vcApp = "App" THEN SelectInApp(FileList(n))
           ELSE IF vcApp = "MainAppMulti" THEN SelectInMulti(FileList(n))
           ELSE SelectInSingle(FileList(n))
    /\ UNCHANGED <<vcApp, vcShown, vcBusy, vcEncodedWith, vcClientCalls>>

\* handleRemoveImage, from the button of an image the last render showed.
RemoveImage ==
    /\ vcApp /= "none"
    /\ \E index \in 0..(Len(vcShown.images) - 1) :
        vcImages' = RemoveAt(vcImages, index)
    /\ UNCHANGED <<vcApp, vcView, vcError, vcShown, vcBusy, vcEncodedWith, vcClientCalls>>

\* handleGenerate / handleGenerateVideo up to its first await: with no image
\* it reports the error and returns, otherwise it invokes the encoder with
\* the images of its render.
Generate ==
    /\ vcApp /= "none"
    /\ vcBusy = "idle"
    /\ IF Len(vcShown.images) = 0
       THEN /\ vcError' = NoImageMessage(vcApp)
            /\ vcView' = IF vcApp = "App" THEN vcView ELSE "error"
            /\ UNCHANGED <<vcBusy, vcEncodedWith>>
       ELSE /\ vcView' = "loading"
            /\ vcError' = NoViewError
            /\ vcEncodedWith' = {Len(vcShown.images)}
            /\ vcBusy' = "encoding"
    /\ UNCHANGED <<vcApp, vcImages, vcShown, vcClientCalls>>

\* The encoder settles: the generation client is invoked with its file, or
\* the catch block reports the failure.
EncoderSettled ==
    /\ vcBusy = "encoding"
    /\ \E ok \in BOOLEAN :
        IF ok
        THEN /\ vcClientCalls' = vcEncodedWith
             /\ vcBusy' = "generating"
             /\ UNCHANGED <<vcView, vcError>>
        ELSE /\ vcError' = GenerateFailedMessage
             /\ vcView' = IF vcApp = "App" THEN "start" ELSE "error"
             /\ vcBusy' = "idle"
             /\ UNCHANGED vcClientCalls
    /\ UNCHANGED <<vcApp, vcImages, vcShown, vcEncodedWith>>

\* generate360Video settles: the result view, or the catch block.
ClientSettled ==
    /\ vcBusy = "generating"
    /\ \E ok \in BOOLEAN :
        IF ok
        THEN /\ vcView' = "result"
             /\ UNCHANGED vcError
        ELSE /\ vcError' = GenerateFailedMessage
             /\ vcView' = IF vcApp = "App" THEN "start" ELSE "error"
    /\ vcBusy' = "idle"
    /\ UNCHANGED <<vcApp, vcImages, vcShown, vcEncodedWith, vcClientCalls>>

\* handleReset / handleStartOver.
Reset ==
    /\ vcApp /= "none"
    /\ vcImages' = <<>>
    /\ vcError' = NoViewError
    /\ vcView' = "start"
    /\ UNCHANGED <<vcApp, vcShown, vcBusy, vcEncodedWith, vcClientCalls>>

\* ------------------------------------------------- Google Drive service
\* services/googleDriveService.ts with getUserSettings / updateUserSettings
\* of services/supabaseDb.ts. The service is a singleton; setCurrentUser,
\* authenticate and signOut are async and are suspended at their awaits.

UserIds == {1, 2}

\* currentUserId: number | null = null; `!this.currentUserId` is its test
NullId == 0

AccessTokens == {"ya29.a", "ya29.b"}

\* currentToken: string | null = null
NullToken == "null"

\* createUserSettings: google_drive_connected: false, no token
NoSettings == [googleDriveToken |-> NullToken, googleDriveConnected |-> FALSE]

\* The calls of setCurrentUser that may be in flight together.
DriveCalls == {1, 2}

DriveIdle == [pc |-> "idle", userId |-> NullId, token |-> NullToken]

\* updateUserSettings: a field of `settings` that is undefined is left out
\* of updateData (a patch holds the fields that are not undefined), and the
\* update touches the rows with user_id = userId.
UpdateUserSettings(table, userId, patch) ==
    [u \in UserIds |->
        IF u = userId
        THEN [f \in DOMAIN table[u] |->
                 IF f \in DOMAIN patch THEN patch[f] ELSE table[u][f]]
        ELSE table[u]]

\* { googleDriveToken: undefined, googleDriveRefreshToken: undefined,
\*   googleDriveConnected: false }
ClearedSettings == [googleDriveConnected |-> FALSE]

\* { googleDriveToken: token, googleDriveRefreshToken: refreshToken,
\*   googleDriveConnected: true }
SavedSettings(token) == [googleDriveToken |-> token, googleDriveConnected |-> TRUE]

\* isUserAuthenticated()
IsUserAuthenticated ==
    drAuth /\ drToken /= NullToken /\ drUserId /= NullId

DrInit ==
    /\ drUserId = NullId
    /\ drToken = NullToken
    /\ drAuth = FALSE
    /\ drSettings = [u \in UserIds |-> NoSettings]
    /\ drLoad = [k \in DriveCalls |-> DriveIdle]
    /\ drSignOut = DriveIdle
    /\ drAuthn = DriveIdle
    /\ drOrigin = NullId
    /\ drSignedOut = [done |-> FALSE, userId |-> NullId]

\* setCurrentUser(userId) up to the first await of loadUserToken
SetCurrentUser(k, userId) ==
    /\ drLoad[k].pc = "idle"
    /\ drUserId' = userId
    /\ drLoad' = [drLoad EXCEPT ![k].pc = "import"]
    /\ UNCHANGED <<drToken, drAuth, drSettings, drSignOut, drAuthn, drOrigin, drSignedOut>>

\* loadUserToken: the import has resolved; getUserSettings(this.currentUserId)
LoadImported(k) ==
    /\ drLoad[k].pc = "import"
    /\ drLoad' = [drLoad EXCEPT ![k] = [pc |-> "settings", userId |-> drUserId, token |-> NullToken]]
    /\ UNCHANGED <<drUserId, drToken, drAuth, drSettings, drSignOut, drAuthn, drOrigin, drSignedOut>>

\* loadUserToken: getUserSettings has settled
SettingsSettled(k) ==
    /\ drLoad[k].pc = "settings"
    /\ \E ok \in BOOLEAN :
        IF ok /\ drLoad[k].userId /= NullId
        THEN LET token == drSettings[drLoad[k].userId].googleDriveToken
             IN  /\ drToken' = token
                 /\ drOrigin' = IF token /= NullToken THEN drLoad[k].userId ELSE NullId
                 /\ IF token /= NullToken
                    THEN /\ drLoad' = [drLoad EXCEPT ![k] = [pc |-> "validate", userId |-> drLoad[k].userId, token |-> token]]
                         /\ UNCHANGED drAuth
                    ELSE /\ drAuth' = FALSE
                         /\ drLoad' = [drLoad EXCEPT ![k] = DriveIdle]
        ELSE /\ drToken' = NullToken
             /\ drAuth' = FALSE
             /\ drOrigin' = NullId
             /\ drLoad' = [drLoad EXCEPT ![k] = DriveIdle]
    /\ UNCHANGED <<drUserId, drSettings, drSignOut, drAuthn, drSignedOut>>

\* loadUserToken: validateToken has settled; clearInvalidToken up to its await
ValidateSettled(k) ==
    /\ drLoad[k].pc = "validate"
    /\ \E isValid \in BOOLEAN :
        /\ drAuth' = isValid
        /\ drLoad' = [drLoad EXCEPT ![k] =
                        IF ~isValid /\ drUserId /= NullId
                        THEN [pc |-> "clearImport", userId |-> NullId, token |-> NullToken]
                        ELSE DriveIdle]
    /\ UNCHANGED <<drUserId, drToken, drSettings, drSignOut, drAuthn, drOrigin, drSignedOut>>

\* clearInvalidToken: the import has resolved; updateUserSettings(this.currentUserId, ...)
ClearImported(k) ==
    /\ drLoad[k].pc = "clearImport"
    /\ drLoad' = [drLoad EXCEPT ![k] = [pc |-> "clearUpdate", userId |-> drUserId, token |-> NullToken]]
    /\ UNCHANGED <<drUserId, drToken, drAuth, drSettings, drSignOut, drAuthn, drOrigin, drSignedOut>>

\* clearInvalidToken: updateUserSettings has settled
ClearSettled(k) ==
    /\ drLoad[k].pc = "clearUpdate"
    /\ \E ok \in BOOLEAN :
        IF ok
        THEN /\ drSettings' = UpdateUserSettings(drSettings, drLoad[k].userId, ClearedSettings)
             /\ drToken' = NullToken
             /\ drAuth' = FALSE
             /\ drOrigin' = NullId
        ELSE UNCHANGED <<drSettings, drToken, drAuth, drOrigin>>
    /\ drLoad' = [drLoad EXCEPT ![k] = DriveIdle]
    /\ UNCHANGED <<drUserId, drSignOut, drAuthn, drSignedOut>>

\* clearUser()
ClearUser ==
    /\ drUserId' = NullId
    /\ drToken' = NullToken
    /\ drAuth' = FALSE
    /\ drOrigin' = NullId
    /\ UNCHANGED <<drSettings, drLoad, drSignOut, drAuthn, drSignedOut>>

\* signOut() up to its first await, or to its end when there is no user
DriveSignOut ==
    /\ drSignOut.pc = "idle"
    /\ IF drUserId /= NullId
       THEN /\ drSignOut' = [drSignOut EXCEPT !.pc = "import"]
            /\ UNCHANGED <<drUserId, drToken, drAuth, drOrigin, drSignedOut>>
       ELSE /\ drUserId' = NullId
            /\ drToken' = NullToken
            /\ drAuth' = FALSE
            /\ drOrigin' = NullId
            /\ drSignedOut' = [done |-> TRUE, userId |-> NullId]
            /\ UNCHANGED drSignOut
    /\ UNCHANGED <<drSettings, drLoad, drAuthn>>

\* signOut: the import has resolved; updateUserSettings(this.currentUserId, ...)
SignOutImported ==
    /\ drSignOut.pc = "import"
    /\ drSignOut' = [pc |-> "update", userId |-> drUserId, token |-> NullToken]
    /\ UNCHANGED <<drUserId, drToken, drAuth, drSettings, drLoad, drAuthn, drOrigin, drSignedOut>>

\* signOut: updateUserSettings has settled; clearUser() unless it threw
SignOutSettled ==
    /\ drSignOut.pc = "update"
    /\ \E ok \in BOOLEAN :
        IF ok
        THEN /\ drSettings' = UpdateUserSettings(drSettings, drSignOut.userId, ClearedSettings)
             /\ drUserId' = NullId
             /\ drToken' = NullToken
             /\ drAuth' = FALSE
             /\ drOrigin' = NullId
        ELSE UNCHANGED <<drSettings, drUserId, drToken, drAuth, drOrigin>>
    /\ drSignedOut' = [done |-> TRUE, userId |-> drSignOut.userId]
    /\ drSignOut' = DriveIdle
    /\ UNCHANGED <<drLoad, drAuthn>>

\* authenticate() when there is no valid token for the current user yet,
\* up to the await of the token response (with a valid token it returns
\* true and leaves the service as it is)
Authenticate ==
    /\ drAuthn.pc = "idle"
    /\ ~(drAuth /\ drToken /= NullToken /\ drUserId /= NullId)
    /\ drAuthn' = [drAuthn EXCEPT !.pc = "consent"]
    /\ UNCHANGED <<drUserId, drToken, drAuth, drSettings, drLoad, drSignOut, drOrigin, drSignedOut>>

\* authenticate: the token request has settled; saveUserToken up to its await
ConsentSettled ==
    /\ drAuthn.pc = "consent"
    /\ \E granted \in BOOLEAN, token \in AccessTokens :
        drAuthn' = IF granted /\ drUserId /= NullId
                   THEN [pc |-> "saveImport", userId |-> NullId, token |-> token]
                   ELSE DriveIdle
    /\ UNCHANGED <<drUserId, drToken, drAuth, drSettings, drLoad, drSignOut, drOrigin, drSignedOut>>

\* saveUserToken: the import has resolved; updateUserSettings(this.currentUserId, ...)
SaveImported ==
    /\ drAuthn.pc = "saveImport"
    /\ drAuthn' = [drAuthn EXCEPT !.pc = "saveUpdate", !.userId = drUserId]
    /\ UNCHANGED <<drUserId, drToken, drAuth, drSettings, drLoad, drSignOut, drOrigin, drSignedOut>>

\* saveUserToken: updateUserSettings has settled; authenticate returns true
SaveSettled ==
    /\ drAuthn.pc = "saveUpdate"
    /\ \E ok \in BOOLEAN :
        IF ok
        THEN /\ drSettings' = UpdateUserSettings(drSettings, drAuthn.userId, SavedSettings(drAuthn.token))
             /\ drToken' = drAuthn.token
             /\ drAuth' = TRUE
             /\ drOrigin' = drAuthn.userId
             /\ drSignedOut' = [done |-> FALSE, userId |-> NullId]
        ELSE UNCHANGED <<drSettings, drToken, drAuth, drOrigin, drSignedOut>>
    /\ drAuthn' = DriveIdle
    /\ UNCHANGED <<drUserId, drLoad, drSignOut>>

\* setCurrentUser and clearUser as the checkDriveAuth effect calls them
\* when the logged-in user changes, and authenticate.
DriveStep ==
    \/ \E k \in DriveCalls, userId \in UserIds : SetCurrentUser(k, userId)
    \/ \E k \in DriveCalls : LoadImported(k)
    \/ \E k \in DriveCalls : SettingsSettled(k)
    \/ \E k \in DriveCalls : ValidateSettled(k)
    \/ \E k \in DriveCalls : ClearImported(k)
    \/ \E k \in DriveCalls : ClearSettled(k)
    \/ ClearUser
    \/ Authenticate
    \/ ConsentSettled
    \/ SaveImported
    \/ SaveSettled

\* One setCurrentUser at a time, authenticate and signOut.
SignOutStep ==
    \/ \E userId \in UserIds : SetCurrentUser(1, userId)
    \/ LoadImported(1)
    \/ SettingsSettled(1)
    \/ ValidateSettled(1)
    \/ ClearImported(1)
    \/ ClearSettled(1)
    \/ DriveSignOut
    \/ SignOutImported
    \/ SignOutSettled
    \/ Authenticate
    \/ ConsentSettled
    \/ SaveImported
    \/ SaveSettled

\* ------------------------------------------- MainApp: videos and views
\* The three MainApp components: unnamed/part_007:527 (up to four images,
\* no view effect: "MainAppMulti"), unnamed/part_007:58 (one image, the
\* view effect: "MainAppSingle") and unnamed/part_006:60 (one image, the
\* view effect, handleBackToStart, the 'creations' view in place of the
\* gallery: "MainAppCreations"). A video is named by its
\* id; the object URL made for it is named by the same id. The state
\* updates of one handler or continuation are committed in one render, and
\* the effects whose dependencies changed run with it.

MainApps == {"MainAppMulti", "MainAppSingle", "MainAppCreations"}

\* ids of the videos table
VideoIds == 1..MaxVideos

\* videoUrl: string | null
NoVideo == 0

DeleteCalls == {1, 2}

NoDelete == [pc |-> "idle", id |-> NoVideo, galleryVideos |-> <<>>]

Listed(videos) == {videos[i] : i \in 1..Len(videos)}

\* getVideosByUserId / getAllVideos: the stored videos, in the order of their ids
RECURSIVE VideosOf(_)
VideosOf(stored) ==
    IF stored = {} THEN <<>>
    ELSE LET first == CHOOSE v \in stored : \A w \in stored : v <= w
         IN  <<first>> \o VideosOf(stored \ {first})

\* galleryVideos.filter(video => video.id !== id)
RECURSIVE WithoutVideo(_, _)
WithoutVideo(videos, id) ==
    IF videos = <<>> THEN <<>>
    ELSE IF Head(videos) = id THEN WithoutVideo(Tail(videos), id)
    ELSE <<Head(videos)>> \o WithoutVideo(Tail(videos), id)

ViewEffectNone(app, user, view) == view

\* useEffect(..., [user, view]): "Update view based on user login state",
\* run after the render that committed `view`
ViewEffect(app, user, view) ==
    IF app = "MainAppMulti" THEN view
    ELSE IF user /\ view = "start" THEN "editor"
    ELSE IF ~user /\ view \in {"editor", "gallery"} THEN "start"
    ELSE view

\* the cleanup of useEffect(..., [galleryVideos, videoUrl]): it closes over
\* the galleryVideos and videoUrl of the render it was created in and
\* revokes their URLs
Cleanup(videos, url) == Listed(videos) \cup (IF url /= NoVideo THEN {url} ELSE {})

GaInit ==
    /\ gaApp = "none"
    /\ gaUser = FALSE
    /\ gaMounted = FALSE
    /\ gaView = "start"
    /\ gaImages = 0
    /\ gaError = FALSE
    /\ gaVideoUrl = NoVideo
    /\ gaGallery = <<>>
    /\ gaFetch = "none"
    /\ gaGen = "idle"
    /\ gaDeletes = [k \in DeleteCalls |-> NoDelete]
    /\ gaDb = {}
    /\ gaRevoked = {}
    /\ gaListed = {}
    /\ gaDeleted = {}
    /\ gaLast = "none"

\* MainApp is mounted: useState initial values, fetchVideos is started
MountMainApp ==
    /\ gaApp = "none"
    /\ \E app \in MainApps, user \in BOOLEAN, stored \in SUBSET {1} :
        /\ gaApp' = app
        /\ gaUser' = user
        /\ gaDb' = stored
        /\ gaView' = IF app /= "MainAppMulti" /\ user THEN "editor" ELSE "start"
    /\ gaMounted' = TRUE
    /\ gaFetch' = "pending"
    /\ gaLast' = "mount"
    /\ UNCHANGED <<gaImages, gaError, gaVideoUrl, gaGallery, gaGen, gaDeletes, gaRevoked, gaListed, gaDeleted>>

\* fetchVideos: setGalleryVideos(userVideos)
VideosLoaded ==
    /\ gaMounted /\ gaFetch = "pending"
    /\ gaFetch' = "done"
    /\ gaGallery' = VideosOf(gaDb)
    /\ gaListed' = gaDb
    /\ gaRevoked' = gaRevoked \cup Cleanup(gaGallery, gaVideoUrl)
    /\ gaLast' = "fetchVideos"
    /\ UNCHANGED <<gaApp, gaUser, gaMounted, gaView, gaImages, gaError, gaVideoUrl, gaGen, gaDeletes, gaDb, gaDeleted>>

\* handleFilesSelect with one file
FilesSelect ==
    /\ gaMounted /\ gaFetch = "done"
    /\ gaView \in {"start", "editor"}
    /\ gaImages' = IF gaApp = "MainAppMulti" THEN Min(MAX_IMAGES(gaApp), gaImages + 1) ELSE 1
    /\ gaImages' /= gaImages \/ gaView /= "editor"
    /\ gaView' = ViewEffect(gaApp, gaUser, "editor")
    /\ gaLast' = "handleFilesSelect"
    /\ UNCHANGED <<gaApp, gaUser, gaMounted, gaError, gaVideoUrl, gaGallery, gaFetch, gaGen, gaDeletes, gaDb, gaRevoked, gaListed, gaDeleted>>

\* onShowGallery: setView('gallery'), or handleShowCreations
ShowGallery ==
    /\ gaMounted /\ gaFetch = "done"
    /\ gaView \in {"start", "editor", "result"}
    /\ gaView' = ViewEffect(gaApp, gaUser, IF gaApp = "MainAppCreations" THEN "creations" ELSE "gallery")
    /\ gaLast' = "onShowGallery"
    /\ UNCHANGED <<gaApp, gaUser, gaMounted, gaImages, gaError, gaVideoUrl, gaGallery, gaFetch, gaGen, gaDeletes, gaDb, gaRevoked, gaListed, gaDeleted>>

\* handleGenerate up to its first await
HandleGenerate ==
    /\ gaMounted /\ gaFetch = "done"
    /\ gaView = "editor"
    /\ gaGen = "idle"
    /\ Cardinality(gaListed) < MaxVideos
    /\ IF gaImages = 0
       THEN /\ gaError' = TRUE
            /\ gaView' = ViewEffect(gaApp, gaUser, "error")
            /\ UNCHANGED gaGen
       ELSE /\ gaError' = FALSE
            /\ gaView' = ViewEffect(gaApp, gaUser, "loading")
            /\ gaGen' = "busy"
    /\ gaLast' = "handleGenerate"
    /\ UNCHANGED <<gaApp, gaUser, gaMounted, gaImages, gaVideoUrl, gaGallery, gaFetch, gaDeletes, gaDb, gaRevoked, gaListed, gaDeleted>>

\* handleGenerate after db.addVideo, or its catch
GenerateSettled ==
    /\ gaMounted /\ gaGen = "busy"
    /\ gaGen' = "idle"
    /\ \E ok \in BOOLEAN :
        IF ok
        THEN LET savedId == CHOOSE v \in VideoIds \ gaListed : \A w \in VideoIds \ gaListed : v <= w
             IN  /\ gaDb' = gaDb \cup {savedId}
                 /\ gaGallery' = <<savedId>> \o gaGallery
                 /\ gaVideoUrl' = savedId
                 /\ gaListed' = gaListed \cup {savedId}
                 /\ gaRevoked' = gaRevoked \cup Cleanup(gaGallery, gaVideoUrl)
                 /\ gaView' = ViewEffect(gaApp, gaUser, "result")
                 /\ UNCHANGED gaError
        ELSE /\ gaError' = TRUE
             /\ gaView' = ViewEffect(gaApp, gaUser, "error")
             /\ UNCHANGED <<gaDb, gaGallery, gaVideoUrl, gaListed, gaRevoked>>
    /\ gaLast' = "handleGenerate"
    /\ UNCHANGED <<gaApp, gaUser, gaMounted, gaImages, gaFetch, gaDeletes, gaDeleted>>

\* handleDeleteVideo(id) up to its await: the handler closes over the
\* galleryVideos of the render it was created in
HandleDeleteVideo(k, id) ==
    /\ gaMounted /\ gaFetch = "done"
    /\ gaView = "gallery"
    /\ gaDeletes[k].pc = "idle"
    /\ id \in Listed(gaGallery)
    /\ \A j \in DeleteCalls : gaDeletes[j].id /= id
    /\ gaDeletes' = [gaDeletes EXCEPT ![k] = [pc |-> "deleteVideo", id |-> id, galleryVideos |-> gaGallery]]
    /\ gaLast' = "handleDeleteVideo"
    /\ UNCHANGED <<gaApp, gaUser, gaMounted, gaView, gaImages, gaError, gaVideoUrl, gaGallery, gaFetch, gaGen, gaDb, gaRevoked, gaListed, gaDeleted>>

\* handleDeleteVideo: db.deleteVideo has settled
DeleteSettled(k) ==
    /\ gaMounted /\ gaDeletes[k].pc = "deleteVideo"
    /\ gaDeletes' = [gaDeletes EXCEPT ![k] = NoDelete]
    /\ \E ok \in BOOLEAN :
        IF ok
        THEN /\ gaDb' = gaDb \ {gaDeletes[k].id}
             /\ gaGallery' = WithoutVideo(gaDeletes[k].galleryVideos, gaDeletes[k].id)
             /\ gaRevoked' = gaRevoked \cup {gaDeletes[k].id} \cup Cleanup(gaGallery, gaVideoUrl)
             /\ gaDeleted' = gaDeleted \cup {gaDeletes[k].id}
        ELSE UNCHANGED <<gaDb, gaGallery, gaRevoked, gaDeleted>>
    /\ gaLast' = "handleDeleteVideo"
    /\ UNCHANGED <<gaApp, gaUser, gaMounted, gaView, gaImages, gaError, gaVideoUrl, gaFetch, gaGen, gaListed>>

\* handleReset
HandleReset ==
    /\ gaMounted
    /\ gaView \in {"result", "error"}
    /\ gaImages' = 0
    /\ gaError' = FALSE
    /\ gaVideoUrl' = NoVideo
    /\ gaRevoked' = IF gaVideoUrl /= NoVideo
                    THEN gaRevoked \cup Cleanup(gaGallery, gaVideoUrl)
                    ELSE gaRevoked
    /\ gaView' = ViewEffect(gaApp, gaUser, "start")
    /\ gaLast' = "handleReset"
    /\ UNCHANGED <<gaApp, gaUser, gaMounted, gaGallery, gaFetch, gaGen, gaDeletes, gaDb, gaListed, gaDeleted>>

\* handleBackToStart
HandleBackToStart ==
    /\ gaMounted
    /\ gaApp = "MainAppCreations"
    /\ gaView \in {"editor", "creations"}
    /\ gaImages' = 0
    /\ gaError' = FALSE
    /\ gaVideoUrl' = NoVideo
    /\ gaRevoked' = IF gaVideoUrl /= NoVideo
                    THEN gaRevoked \cup Cleanup(gaGallery, gaVideoUrl)
                    ELSE gaRevoked
    /\ gaView' = ViewEffect(gaApp, gaUser, "start")
    /\ gaLast' = "handleBackToStart"
    /\ UNCHANGED <<gaApp, gaUser, gaMounted, gaGallery, gaFetch, gaGen, gaDeletes, gaDb, gaListed, gaDeleted>>

\* MainApp unmounts: the cleanup runs
Unmount ==
    /\ gaMounted
    /\ gaMounted' = FALSE
    /\ gaRevoked' = gaRevoked \cup Cleanup(gaGallery, gaVideoUrl)
    /\ gaLast' = "unmount"
    /\ UNCHANGED <<gaApp, gaUser, gaView, gaImages, gaError, gaVideoUrl, gaGallery, gaFetch, gaGen, gaDeletes, gaDb, gaListed, gaDeleted>>

GalleryStep ==
    \/ MountMainApp
    \/ VideosLoaded
    \/ FilesSelect
    \/ ShowGallery
    \/ HandleGenerate
    \/ GenerateSettled
    \/ \E k \in DeleteCalls, id \in VideoIds : HandleDeleteVideo(k, id)
    \/ \E k \in DeleteCalls : DeleteSettled(k)
    \/ HandleReset
    \/ HandleBackToStart
    \/ Unmount

NextView ==
    /\ \/ Mount
       \/ Render
       \/ SelectFiles
       \/ RemoveImage
       \/ Generate
       \/ EncoderSettled
       \/ ClientSettled
       \/ Reset
    /\ UNCHANGED <<genVars, encVars, acVars, apiVars, auVars, drVars, gaVars>>

InitView ==
    /\ envKey = FALSE
    /\ pc = [c \in Calls |-> "unused"]
    /\ GenInit
    /\ EncInit
    /\ VcInit
    /\ AcInit
    /\ ApiInit
    /\ AuInit
    /\ DrInit
    /\ GaInit

SpecView == InitView /\ [][NextView]_vars

NextAccess ==
    /\ Deploy \/ \E t \in Tabs : AccessStep(t)
    /\ UNCHANGED <<genVars, encVars, vcVars, apiVars, auVars, drVars, gaVars>>

InitAccess ==
    /\ envKey = FALSE
    /\ pc = [c \in Calls |-> "unused"]
    /\ GenInit
    /\ EncInit
    /\ VcInit
    /\ AcInit
    /\ ApiInit
    /\ AuInit
    /\ DrInit
    /\ GaInit

SpecAccess == InitAccess /\ [][NextAccess]_vars

NextApi == Handler /\ UNCHANGED <<genVars, encVars, vcVars, acVars, auVars, drVars, gaVars>>

InitApi ==
    /\ envKey = FALSE
    /\ pc = [c \in Calls |-> "unused"]
    /\ GenInit
    /\ EncInit
    /\ VcInit
    /\ AcInit
    /\ apiEnv \in EnvValues
    /\ ApiIdle
    /\ AuInit
    /\ DrInit
    /\ GaInit

SpecApi == InitApi /\ [][NextApi]_vars

NextSession == SessionStep /\ UNCHANGED <<genVars, encVars, vcVars, acVars, apiVars, drVars, gaVars>>

InitAuth ==
    /\ envKey = FALSE
    /\ pc = [c \in Calls |-> "unused"]
    /\ GenInit
    /\ EncInit
    /\ VcInit
    /\ AcInit
    /\ ApiInit
    /\ AuInit
    /\ DrInit
    /\ GaInit

SpecSession == InitAuth /\ [][NextSession]_vars

NextPassword == PasswordStep /\ UNCHANGED <<genVars, encVars, vcVars, acVars, apiVars, drVars, gaVars>>

SpecPassword == InitAuth /\ [][NextPassword]_vars

NextDrive == DriveStep /\ UNCHANGED <<genVars, encVars, vcVars, acVars, apiVars, auVars, gaVars>>

SpecDrive == InitAuth /\ [][NextDrive]_vars

NextSignOut == SignOutStep /\ UNCHANGED <<genVars, encVars, vcVars, acVars, apiVars, auVars, gaVars>>

SpecSignOut == InitAuth /\ [][NextSignOut]_vars

NextGallery == GalleryStep /\ UNCHANGED <<genVars, encVars, vcVars, acVars, apiVars, auVars, drVars>>

SpecGallery == InitAuth /\ [][NextGallery]_vars

InitEncode ==
    /\ envKey = FALSE
    /\ pc = [c \in Calls |-> "unused"]
    /\ GenInit
    /\ EncInit
    /\ VcInit
    /\ AcInit
    /\ ApiInit
    /\ AuInit
    /\ DrInit
    /\ GaInit

SpecEncode == InitEncode /\ [][NextEncode]_vars
InitGenerate ==
    /\ envKey \in BOOLEAN
    /\ pc = [c \in Calls |-> "idle"]
    /\ GenInit
    /\ EncInit
    /\ VcInit
    /\ AcInit
    /\ ApiInit
    /\ AuInit
    /\ DrInit
    /\ GaInit

SpecGenerate == InitGenerate /\ [][NextGenerate]_vars

\* A single call: the other calls are never made.
InitSolo ==
    /\ envKey \in BOOLEAN
    /\ pc = [c \in Calls |-> IF c = 1 THEN "idle" ELSE "unused"]
    /\ GenInit
    /\ EncInit
    /\ VcInit
    /\ AcInit
    /\ ApiInit
    /\ AuInit
    /\ DrInit
    /\ GaInit

\* The event loop runs every timer and delivers every response: a call that
\* is suspended at an await is resumed.
FairSpecSolo ==
    InitSolo /\ [][NextGenerate]_vars
             /\ \A c \in Calls : WF_vars(GenStep(c) /\ UNCHANGED <<encVars, vcVars, acVars, apiVars, auVars, drVars, gaVars>>)

\* ------------------------------------------------------------ properties
HasJob(c) == \E h \in Handles : jobs[h].owner = c
JobOf(c) == jobs[CHOOSE h \in Handles : jobs[h].owner = c]
Succeeded(t) == t.decided /\ t.error = NoError /\ t.uri /= NoUri
FetchRefused(c) == httpStatus[c] /= 0 /\ ~(httpStatus[c] >= 200 /\ httpStatus[c] <= 299)

\* C1: once a delivered response (the start response or a status response)
\* has reported the operation done, the call issues no further status
\* request.
C1_NoPollAfterTerminal ==
    [][\A c \in Calls : sawTerminal[c] => statusReqs'[c] = statusReqs[c]]_vars

C1_Witness ==
    \E c \in Calls : sawTerminal[c] /\ statusReqs[c] >= 2 /\ Settled(c)

\* C2: when the service answers Running to the first N status requests of a
\* call and Succeeded with a locator to the next one, and no request fails,
\* the call issues exactly N+1 status requests and at most one fetch, and
\* it returns the artifact unless the fetch is refused.
C2Scenario(c) ==
    /\ HasJob(c)
    /\ JobOf(c).kind = "finite"
    /\ ~reqFailed[c]
    /\ JobOf(c).term.decided => Succeeded(JobOf(c).term)

C2_ExactlyNPlusOnePolls ==
    \A c \in Calls :
        C2Scenario(c) =>
            /\ statusReqs[c] <= JobOf(c).runs + 1
            /\ fetchReqs[c] <= 1
            /\ sawTerminal[c] => statusReqs[c] = JobOf(c).runs + 1
            /\ Settled(c) =>
                /\ sawTerminal[c]
                /\ statusReqs[c] = JobOf(c).runs + 1
                /\ fetchReqs[c] = 1
                /\ pc[c] = "resolved" \/ FetchRefused(c)

C2_Witness ==
    \E c \in Calls :
        /\ C2Scenario(c)
        /\ JobOf(c).runs = MaxRunning
        /\ pc[c] = "resolved"
        /\ statusReqs[c] = MaxRunning + 1

\* C3: when a delivered response reports the operation failed with a
\* reason, the call is rejected at once with a message that contains the
\* reason, and it has issued no fetch.
C3_FailureSurfaced ==
    \A c \in Calls :
        (sawTerminal[c] /\ HasJob(c) /\ JobOf(c).term.error /= NoError) =>
            /\ pc[c] = "rejected"
            /\ outcome[c].kind = "rejected"
            /\ ContainsSeq(outcome[c].msg, <<JobOf(c).term.error>>)
            /\ fetchReqs[c] = 0

C3_Witness ==
    \E c \in Calls :
        /\ sawTerminal[c]
        /\ HasJob(c)
        /\ JobOf(c).term.error = "quota exceeded"
        /\ statusReqs[c] = 1
        /\ pc[c] = "rejected"

\* C4: there is no timeout, poll limit or cancellation.  A call that has sent
\* its start request settles only after a response reported done or a
\* remote request failed; while the service keeps answering Running and no
\* request fails the call is waiting for its timer or for a status response,
\* and it issues status request after status request; a call whose job
\* reaches a terminal state does settle.
C4_SettlesOnly ==
    \A c \in Calls :
        /\ (Settled(c) /\ startReqs[c] >= 1) => (sawTerminal[c] \/ reqFailed[c])
        /\ (HasJob(c) /\ JobOf(c).kind = "forever" /\ ~reqFailed[c]) =>
               pc[c] \in {"sleep", "poll"}

C4_NoTimeout ==
    /\ []C4_SettlesOnly
    /\ \A c \in Calls : \A n \in 0..(PollCap - 1) :
          (HasJob(c) /\ JobOf(c).kind = "forever" /\ statusReqs[c] = n)
              ~> (reqFailed[c] \/ statusReqs[c] = n + 1)
    /\ \A c \in Calls :
          (HasJob(c) /\ JobOf(c).kind /= "forever") ~> Settled(c)

C4_Witness ==
    \E c \in Calls :
        /\ HasJob(c)
        /\ JobOf(c).kind = "forever"
        /\ statusReqs[c] = PollCap
        /\ ~Settled(c)

\* C5 as stated: onProgress is invoked at least once before the first status
\* request and at least once more by the time the call settles, whatever the
\* outcome; every message is non-empty.
C5_Original ==
    \A c \in Calls :
        /\ statusReqs[c] >= 1 => firstPollAt[c] >= 1
        /\ Settled(c) => Len(progress[c]) >= 2
        /\ \A i \in 1..Len(progress[c]) : IsNonEmptyMessage(progress[c][i])

\* C5 as amended: at least one onProgress call precedes the first status
\* request; a call that settles after it issued the start request has
\* invoked onProgress at least twice (a call that fails earlier may have
\* invoked it once only); a call that returns after polling invokes it at
\* least once more after the first status request; every message is
\* non-empty.
C5_Progress ==
    \A c \in Calls :
        /\ statusReqs[c] >= 1 => firstPollAt[c] >= 1
        /\ (Settled(c) /\ startReqs[c] >= 1) => Len(progress[c]) >= 2
        /\ (pc[c] = "resolved" /\ statusReqs[c] >= 1) => Len(progress[c]) > firstPollAt[c]
        /\ \A i \in 1..Len(progress[c]) : IsNonEmptyMessage(progress[c][i])

C5_Witness ==
    \E c \in Calls :
        /\ pc[c] = "resolved"
        /\ statusReqs[c] >= 1
        /\ \E i \in 1..Len(progress[c]) : progress[c][i] = UsingModelMessage("")

\* C6: nothing is retried.  A call sends at most one start request and at
\* most one fetch; once a start request, a status request or the fetch has
\* failed the call is rejected and issues no further remote request.
RequestFailed(c) == reqFailed[c] \/ FetchRefused(c)

C6_NoRetry ==
    /\ [](\A c \in Calls :
            /\ startReqs[c] <= 1
            /\ fetchReqs[c] <= 1
            /\ RequestFailed(c) => pc[c] = "rejected")
    /\ [][\A c \in Calls :
            RequestFailed(c) =>
                /\ startReqs'[c] = startReqs[c]
                /\ statusReqs'[c] = statusReqs[c]
                /\ fetchReqs'[c] = fetchReqs[c]]_vars

C6_Witness ==
    \E c \in Calls :
        /\ reqFailed[c]
        /\ fetchReqs[c] = 1
        /\ httpStatus[c] = 0
        /\ pc[c] = "rejected"

\* C7: two calls in flight do not interact.  Each call polls with the handle
\* the service gave to it and fetches its own locator, its poll counter
\* counts its own iterations, its milestones follow its own counter, and its
\* outcome is the one its own job and its own requests determine.
C7_Independent ==
    \A c \in Calls :
        /\ \A h \in sentHandles[c] : jobs[h].owner = c
        /\ HasJob(c) => operation[c].handle \in {h \in Handles : jobs[h].owner = c}
        /\ pc[c] = "sleep" => pollCount[c] = statusReqs[c] + 1
        /\ pc[c] = "poll" => pollCount[c] = statusReqs[c]
        /\ variant[c] = "db" =>
              /\ (\E i \in 1..Len(progress[c]) : progress[c][i] = ComposingMessage)
                     <=> statusReqs[c] >= FirstMilestone
              /\ (\E i \in 1..Len(progress[c]) : progress[c][i] = RenderingMessage)
                     <=> statusReqs[c] >= SecondMilestone
        /\ fetchReqs[c] >= 1 => (HasJob(c) /\ fetched[c] = JobOf(c).term.uri)
        /\ (Settled(c) /\ HasJob(c) /\ ~reqFailed[c]) =>
              /\ JobOf(c).term.decided
              /\ operation[c] = TerminalAnswer(operation[c].handle, JobOf(c).term)
              /\ pc[c] = "resolved" <=> (Succeeded(JobOf(c).term) /\ ~FetchRefused(c))

C7_Witness ==
    /\ pc[1] = "rejected" /\ HasJob(1) /\ JobOf(1).term.error /= NoError
    /\ pc[2] = "resolved" /\ statusReqs[2] > statusReqs[1]
    /\ statusReqs[1] >= 1

\* C8: when the operation is reported done without an error and without a
\* result locator, the call is rejected with an error and issues no fetch.
C8_MissingLocator ==
    \A c \in Calls :
        (sawTerminal[c] /\ HasJob(c) /\ JobOf(c).term.decided
            /\ JobOf(c).term.error = NoError /\ JobOf(c).term.uri = NoUri) =>
            /\ pc[c] = "rejected"
            /\ outcome[c] = Rejected(NoLinkMessage(variant[c]))
            /\ IsNonEmptyMessage(outcome[c].msg)
            /\ fetchReqs[c] = 0

C8_Witness ==
    \E c \in Calls :
        /\ sawTerminal[c] /\ HasJob(c) /\ JobOf(c).term.decided
        /\ JobOf(c).term.error = NoError /\ JobOf(c).term.uri = NoUri
        /\ pc[c] = "rejected"
        /\ statusReqs[c] >= 1

\* C9: when the fetch of the result locator is answered with a non-success
\* status, the call is rejected with a message that contains the status
\* code, and no artifact is returned.
C9_FetchStatusSurfaced ==
    \A c \in Calls :
        FetchRefused(c) =>
            /\ pc[c] = "rejected"
            /\ outcome[c].kind = "rejected"
            /\ ContainsSeq(outcome[c].msg, NumText(httpStatus[c]))
            /\ outcome[c].artifact = "none"

C9_Witness ==
    \E c \in Calls :
        /\ httpStatus[c] = 404
        /\ pc[c] = "rejected"
        /\ ContainsSeq(outcome[c].msg, <<"4", "0", "4">>)

\* C10: when an input image fails to decode, the encode call settles by
\* failing and yields no output file: it is not left pending and it does not
\* hand out a canvas.
C10_DecodeFailureRejects ==
    (\E i \in 1..Len(imgLoad) : imgLoad[i] = "error") =>
        /\ encStatus = "rejected"
        /\ encOut = NoFile

\* C11: every object URL the encoder created while loading the images has
\* been revoked by the time the encode call settles, whether it resolved or
\* rejected.
C11_UrlsRevokedAtSettle ==
    encStatus \in {"resolved", "rejected"} =>
        \A i \in 1..Len(imgUrl) : imgUrl[i] /= "live"

\* C12: in the composite that stitchImages or combineImages produces from
\* several images, image i is drawn at the horizontal offset that is the sum
\* of the widths of the images before it and at the vertical offset
\* (H - h_i) / 2, H the height of the output.
Composites == {"stitchImages", "combineImages"}

C12_Placement ==
    (encStatus = "resolved" /\ encFn \in Composites /\ Len(encFiles) >= 2) =>
        /\ Len(encOut.draws) = Len(encFiles)
        /\ \A i \in 1..Len(encFiles) :
              /\ encOut.draws[i].img = i
              /\ encOut.draws[i].x =
                    Cardinality({p \in (1..(i - 1)) \X (1..MaxDim) : p[2] <= encFiles[p[1]].w})
              /\ encOut.draws[i].y2 = encOut.h - encFiles[i].h

\* C13: for a non-empty list of images, the canvas that stitchImages or
\* combineImages paints (and processImageForGeneration for the single image
\* its caller holds) is as wide as the widths of the inputs add up to and as
\* high as the highest input.
C13_CanvasSize ==
    (encStatus \in {"blob", "resolved"} /\ (encFn \in Composites \/ Len(encFiles) = 1)) =>
        /\ canvas.w =
              Cardinality({p \in (1..Len(encFiles)) \X (1..MaxDim) : p[2] <= encFiles[p[1]].w})
        /\ \A i \in 1..Len(encFiles) : encFiles[i].h <= canvas.h
        /\ \E i \in 1..Len(encFiles) : encFiles[i].h = canvas.h
        /\ encStatus = "resolved" => (encOut.w = canvas.w /\ encOut.h = canvas.h)

C13_Witness ==
    /\ encStatus = "resolved"
    /\ encFn = "combineImages"
    /\ Len(encFiles) = 2
    /\ encFiles[1].h < encFiles[2].h
    /\ encFiles[1].w /= encFiles[2].w
    /\ encOut.w = encFiles[1].w + encFiles[2].w

C15_OnlySuperAdminWhileDisabled ==
    \A t \in Tabs :
        (Deployed /\ ~acSetting /\ acUser[t] /= NoAccount) =>
            /\ Page(t) = "content" => acUser[t] = "admin"
            /\ (acUser[t] /= "admin" /\ Page(t) /= "loading") => Page(t) = "maintenance"

\* C16: a logged-in user created with the super-admin role is never shown
\* the maintenance page or the Access Denied page, whatever the site-access
\* and maintenance settings are, and is given the content of /superadmin.
C16_SuperAdminAlwaysIn ==
    \A t \in Tabs :
        (Deployed /\ acUser[t] = "admin") =>
            /\ Page(t) \notin {"maintenance", "denied"}
            /\ (acPath[t] = "/superadmin" /\ Page(t) /= "loading") => Page(t) = "content"

\* C17: a POST changes the setting that GET returns only when the request
\* identifies its sender as super admin (by the x-user-role header, or by
\* the user-role cookie when there is no such header); every other POST is
\* answered 403 and leaves the setting unchanged.
C17_PostNeedsSuperAdmin ==
    [][/\ (/\ apiReq'.method = "POST"
           /\ ~(\/ apiReq'.header = "superadmin"
                \/ (apiReq'.header = "" /\ apiReq'.cookie = "superadmin")))
          => (apiRes'.status = 403 /\ ((apiEnv' = "false") <=> (apiEnv = "false")))
       /\ ((apiEnv' = "false") /= (apiEnv = "false"))
          => (/\ apiReq'.method = "POST"
              /\ \/ apiReq'.header = "superadmin"
                 \/ (apiReq'.header = "" /\ apiReq'.cookie = "superadmin"))]_vars

C17_Witness ==
    /\ apiReq.method = "POST"
    /\ apiReq.header = "user"
    /\ apiReq.cookie = "superadmin"
    /\ apiReq.enabled = "true"
    /\ apiRes.status = 403
    /\ apiEnv = "false"

\* C18: session restore authenticates only from a stored token whose
\* signature verifies and which was issued at most TOKEN_EXPIRY earlier;
\* with any other stored token it ends at once, unauthenticated and with the
\* stored token removed.
C18_RestoreOnlyValidToken ==
    [][/\ (/\ auPhase = "none" /\ auPhase' /= "none" /\ auStored /= NoToken
           /\ ~(/\ auStored.signature =
                     [key |-> JWT_SECRET, userId |-> auStored.userId, exp |-> auStored.exp]
                /\ auNow - (auStored.exp - TOKEN_EXPIRY) <= TOKEN_EXPIRY))
          => (auPhase' = "removed" /\ ~auState'.isAuthenticated /\ auStored' = NoToken)
       /\ (auPhase' = "restoring" /\ auPhase /= "restoring")
          => (/\ auPending' = auStored
              /\ auStored.signature =
                     [key |-> JWT_SECRET, userId |-> auStored.userId, exp |-> auStored.exp]
              /\ auNow - (auStored.exp - TOKEN_EXPIRY) <= TOKEN_EXPIRY)
       /\ (auPhase' = "restored" /\ auPhase /= "restored")
          => (auPhase = "restoring" /\ auState'.isAuthenticated /\ auState'.token = auPending)]_vars

C18_Witness ==
    /\ auPhase = "restored"
    /\ auState.isAuthenticated
    /\ auState.token = auStored
    /\ auState.token.exp = auNow

\* C19: a user whose approval status is not 'approved' is never the user of
\* an authenticated session.
C19_OnlyApprovedSessions ==
    auState.isAuthenticated => auUsers[auState.user].approval = "approved"

\* C20: once resetPassword has succeeded for an approved user, a login with
\* the new password succeeds and a login with the previous password fails.
C20_LoginAfterReset ==
    [][(/\ auResult' /= auResult
        /\ auResult'.op = "login"
        /\ auPrev[auResult'.email] /= NoPassword
        /\ auUsers[auResult'.email].approval = "approved")
       => /\ auResult'.password = auKnown[auResult'.email] => auResult'.success
          /\ (/\ auResult'.password = auPrev[auResult'.email]
              /\ auPrev[auResult'.email] /= auKnown[auResult'.email])
             => ~auResult'.success]_vars

\* C21: a reset goes ahead only with a token that was issued for an existing
\* user, has not expired and is unused, and only such a reset succeeds; once
\* a reset with the token has succeeded, no reset with that token succeeds
\* and no password changes any more.
C21_ResetTokenOnce ==
    [][/\ \A k \in ResetCalls :
            (auCalls[k].pc = "idle" /\ auCalls'[k].pc = "found") =>
                (/\ auReset.issued /\ auUsers[auReset.email].exists
                 /\ ~auReset.expired /\ ~auReset.used)
       /\ \A k \in ResetCalls :
            (/\ auCalls[k].pc = "found" /\ auCalls'[k].pc = "idle"
             /\ auReset.succeeded)
            => (/\ ~(auResult'.op = "resetPassword" /\ auResult'.success)
                /\ auUsers'[auReset.email].hash = auUsers[auReset.email].hash)
       /\ \A k \in ResetCalls :
            (auCalls[k].pc = "idle" /\ auCalls'[k].pc = "found") => ~auReset.succeeded]_vars

\* C22: as long as logout() is the latest call the service has answered, the
\* service is unauthenticated, with no user, no token and no auth_token in
\* local storage, also when the session restore of the constructor was
\* still pending at the logout.
C22_StaysLoggedOut ==
    auResult.op = "logout" =>
        /\ ~auState.isAuthenticated
        /\ auState.user = "none"
        /\ auState.token = NoToken
        /\ auStored = NoToken

\* C23: once AuthProvider has left its loading state and the session restore
\* has ended with a restored session, the state the provider exposed is the
\* state of the service (no call was made to the service since).
C23_ProviderSeesRestore ==
    (prInit /= Loading /\ auPhase = "restored" /\ auResult = NoResult) => prInit = auState

\* C24 as stated: a milestone message is in the progress of a call only
\* after its 3rd (6th) status request has been answered.
C24_Original ==
    \A c \in Calls :
        LET answered == statusReqs[c] - (IF pc[c] = "poll" THEN 1 ELSE 0)
        IN  /\ (\E i \in 1..Len(progress[c]) : progress[c][i] = ComposingMessage) => answered >= 3
            /\ (\E i \in 1..Len(progress[c]) : progress[c][i] = RenderingMessage) => answered >= 6

\* C24: in the generate360Video that emits them, the two milestone messages
\* are emitted right before the 3rd and right before the 6th status request
\* is sent (after the 3rd and the 6th wait of 10 s, when 2 and 5 requests
\* have been answered): each is in the progress exactly from the moment
\* that request is issued, at most once, and the first before the second.
\* The other generate360Video never emits them.
C24_Milestones ==
    \A c \in Calls :
        LET composing == {i \in 1..Len(progress[c]) : progress[c][i] = ComposingMessage}
            rendering == {i \in 1..Len(progress[c]) : progress[c][i] = RenderingMessage}
            answered == statusReqs[c] - (IF pc[c] = "poll" THEN 1 ELSE 0)
        IN  /\ Cardinality(composing) <= 1
            /\ Cardinality(rendering) <= 1
            /\ \A i \in composing, j \in rendering : i < j
            /\ variant[c] = "db" => /\ composing /= {} <=> statusReqs[c] >= 3
                                    /\ rendering /= {} <=> statusReqs[c] >= 6
                                    /\ composing /= {} => answered >= 2
                                    /\ rendering /= {} => answered >= 5
            /\ variant[c] /= "db" => (composing = {} /\ rendering = {})

C24_Witness ==
    \E c \in Calls :
        /\ variant[c] = "db"
        /\ pc[c] = "poll"
        /\ statusReqs[c] = 6
        /\ \E i, j \in 1..Len(progress[c]) :
              i < j /\ progress[c][i] = ComposingMessage /\ progress[c][j] = RenderingMessage

\* C25: once signOut() has completed, and until authenticate() has saved a
\* token again, isUserAuthenticated() is false and no Drive token is stored
\* for the user who signed out, whatever setCurrentUser calls follow.
C25_SignOutClearsTokens ==
    drSignedOut.done =>
        /\ ~IsUserAuthenticated
        /\ drSignedOut.userId /= NullId =>
              drSettings[drSignedOut.userId].googleDriveToken = NullToken

\* C26: whenever isUserAuthenticated() is true, currentToken was loaded
\* from or saved to the settings of the user currentUserId names.
C26_TokenOfCurrentUser ==
    IsUserAuthenticated => drOrigin = drUserId

\* C27: while MainApp is mounted, the object URL of a video that is listed
\* in the gallery, and of the current result video, has not been revoked.
C27_ListedUrlsLive ==
    gaMounted =>
        /\ \A v \in Listed(gaGallery) : v \notin gaRevoked
        /\ gaVideoUrl /= NoVideo => gaVideoUrl \notin gaRevoked

\* C28: when no handleDeleteVideo call and no other update of the list is
\* in flight, the gallery lists exactly the videos that were listed at some
\* time and were not deleted.
C28_GalleryAfterDeletes ==
    (/\ gaFetch = "done"
     /\ gaGen = "idle"
     /\ \A k \in DeleteCalls : gaDeletes[k].pc = "idle")
        => Listed(gaGallery) = gaListed \ gaDeleted

\* C29 as stated: after handleBackToStart or handleReset the view is
\* 'start', with no images, no result video URL and no error, whether or
\* not a user is logged in.
C29_Original ==
    gaLast \in {"handleBackToStart", "handleReset"} =>
        /\ gaView = "start"
        /\ gaImages = 0
        /\ gaVideoUrl = NoVideo
        /\ ~gaError

\* C29: after handleBackToStart or handleReset there are no images, no
\* result video URL and no error; the view is 'start' for a logged-out
\* user and in the MainApp without the view effect, and 'editor' for a
\* logged-in user in the MainApp components with the view effect.
C29_BackToStart ==
    gaLast \in {"handleBackToStart", "handleReset"} =>
        /\ gaImages = 0
        /\ gaVideoUrl = NoVideo
        /\ ~gaError
        /\ gaView = IF gaUser /\ gaApp \in {"MainAppSingle", "MainAppCreations"}
                    THEN "editor" ELSE "start"

C29_Witness ==
    /\ gaLast = "handleBackToStart"
    /\ gaUser
    /\ gaApp = "MainAppCreations"
    /\ gaView = "editor"
    /\ gaListed /= {}

\* What MaintenanceWrapper shows in tab t.
WrapperShows(t) == MaintenanceWrapperRender(acBuild, acUser[t], acMaintSeen[t])

\* A check of the maintenance status completes in tab t, where a user who
\* is not a super admin has the app open.
CheckCompletes(t) ==
    /\ acMaintSeen'[t] /= acMaintSeen[t]
    /\ acMaintSeen'[t] /= "loading"
    /\ acUser'[t] = "regular"

\* C30 as stated: once a check has completed, a user who is not a super
\* admin is shown the maintenance page when maintenance mode is on and the
\* app when it is off.
C30_Original ==
    [][\A t \in Tabs :
          CheckCompletes(t) => ((WrapperShows(t)' = "maintenance") <=> acMaint')]_vars

\* C30: every completed check sets what a user who is not a super admin is
\* shown: a check that succeeds shows the maintenance page when maintenance
\* mode is on and the app when it is off; a check that fails shows the app,
\* whatever the mode.
C30_Recheck ==
    [][\A t \in Tabs :
          CheckCompletes(t) =>
              IF acMaintSeen'[t] = "error"
              THEN WrapperShows(t)' = "children"
              ELSE (WrapperShows(t)' = "maintenance") <=> acMaint']_vars

C30_Witness ==
    \E t \in Tabs :
        /\ acUser[t] = "regular"
        /\ acMaint
        /\ acMaintSeen[t] = "on"
        /\ Page(t) = "maintenance"

====
